---- MODULE Spec2Model ----
(***************************************************************************)
(* Smart Recipe (gustavowmarques/smart-recipe-app): the persisted tables   *)
(* of core/models.py, the request handlers of core/views.py and the        *)
(* nutrition service of core/services/nutrition.py as a state machine.     *)
(*                                                                         *)
(* A table is a set of rows (records with an id).  A request handler is an *)
(* operator from the state it reads to the state it leaves and the         *)
(* response it gives; an action applies one handler to inputs drawn from   *)
(* small sets.  A response status "500" is an exception that no handler    *)
(* code catches.                                                           *)
(***************************************************************************)
EXTENDS Integers, Sequences, FiniteSets, TLC

VARIABLES
    db,        \* the relational tables, one field per model of core/models.py
    session,   \* per user: the session keys the views read and write
    today,     \* the server's current date (a day number; day 0 is a Monday)
    resp,      \* the last request and the response it got
    txn        \* the in-flight pantry-review transactions (concurrent requests)

vars == <<db, session, today, resp, txn>>

\* ------------------------------------------------------------------ bounds

MaxIngredients == 2
MaxRows == 2
MaxLogged == 3
MaxDay == 8
MaxTotal == 3
MaxUploads == 1

\* ------------------------------------------------------------- small helpers

Max(S) == CHOOSE m \in S : \A x \in S : x <= m
Min(S) == CHOOSE m \in S : \A x \in S : m <= x
Min2(a, b) == IF a <= b THEN a ELSE b
Max2(a, b) == IF a >= b THEN a ELSE b

\* F applied to x, with x computed once (a local variable of the code).
Bind(x, F(_)) == CHOOSE y \in {F(v) : v \in {x}} : TRUE

\* A fresh primary key for a table (AutoField): larger than every key in use.
NewId(table) == IF table = {} THEN 1 ELSE Max({r.id : r \in table}) + 1

Users == {"u1", "u2"}

\* ---------------------------------------------------------- text of a field

\* Lower() of the names the model uses (Lower("name") of the constraint and
\* name__iexact of the lookup fold case the same way).
Lower(s) ==
    CASE s = "Milk" -> "milk"
      [] s = "MILK" -> "milk"
      [] s = "Egg"  -> "egg"
      [] s = "Title" -> "title"
      [] s = "Summary" -> "summary"
      [] s = "Here are some ideas" -> "here are some ideas"
      [] s = "Protein" -> "protein"
      [] s = "Calories" -> "calories"
      [] OTHER      -> s

\* Ingredient.quantity is a CharField: its value is a text.  A text is kept as
\* what matters of it: blank, a numeral (with its value), or other text such
\* as "200g".  QNull is Python's None, which the column (NOT NULL) refuses.
QNull    == [kind |-> "null",  n |-> 0]
QBlank   == [kind |-> "blank", n |-> 0]
QText    == [kind |-> "text",  n |-> 0]
QNum(n)  == [kind |-> "num",   n |-> n]

\* _to_decimal of pantry_extract_review: Decimal(s), or None for a blank or
\* unparsable text.
_to_decimal(q) == IF q.kind = "num" THEN q ELSE QNull

\* ----------------------------------------------------------- Ingredient rows

\* UniqueConstraint(Lower("name"), "user"): whether a row with this owner and
\* name may be stored beside the rows of tbl other than the row `self`.
NoConstraint_ingredient(tbl, self, user, name) == TRUE
uniq_ingredient_user_name_ci(tbl, self, user, name) ==
    \A r \in tbl : r.id # self => ~(r.user = user /\ Lower(r.name) = Lower(name))

\* INSERT of an Ingredient: the row is stored unless the unique constraint
\* or the NOT NULL of quantity refuses it (IntegrityError).
InsertIngredient(tbl, user, name, quantity, unit) ==
    IF quantity.kind # "null" /\ uniq_ingredient_user_name_ci(tbl, 0, user, name)
    THEN [ok |-> TRUE,
          tbl |-> tbl \cup {[id |-> NewId(tbl), user |-> user, name |-> name,
                             quantity |-> quantity, unit |-> unit]}]
    ELSE [ok |-> FALSE, tbl |-> tbl]

\* add_ingredient: IngredientForm (clean_name strips the name and refuses an
\* empty one), then obj.save() with every exception turned into a message.
add_ingredient(d, user, name, quantity, unit) ==
    IF name = ""
    THEN [db |-> d, status |-> "form_error"]
    ELSE LET ins == InsertIngredient(d.ingredients, user, name, quantity, unit)
         IN  IF ins.ok
             THEN [db |-> [d EXCEPT !.ingredients = ins.tbl], status |-> "added"]
             ELSE [db |-> d, status |-> "could_not_add"]

\* delete_ingredient: get_object_or_404(Ingredient, pk=pk, user=request.user).
delete_ingredient(d, user, pk) ==
    IF \E r \in d.ingredients : r.id = pk /\ r.user = user
    THEN [db |-> [d EXCEPT !.ingredients = {r \in @ : r.id # pk}], status |-> "removed"]
    ELSE [db |-> d, status |-> "404"]

\* One row of the review formset is [name, quantity, unit, delete].  The
\* loop of pantry_extract_review carries st: [ing: the Ingredient table,
\* added, updated, errors: the names that got the "Could not save" message,
\* crashed: an exception left the view].

\* select_for_update().get(user=request.user, name__iexact=name): the rows hit.
review_get(ing, user, name) ==
    {r \in ing : r.user = user /\ Lower(r.name) = Lower(name)}

\* The merge branch on the row obj that the get returned.
\* (obj.quantity or Decimal("0")) + qty_dec with a non-empty str on the left
\* is a TypeError, which nothing catches; obj.save() is refused (IntegrityError,
\* caught) when the new casing of the name collides with another row.
review_merge(st, user, obj, row) ==
    LET qty_dec  == _to_decimal(row.quantity)
        unit_val == row.unit
    IN  IF qty_dec.kind = "num" /\ obj.quantity.kind # "blank"
        THEN [st EXCEPT !.crashed = TRUE]
        ELSE LET q2  == IF qty_dec.kind = "num" THEN QNum(0 + qty_dec.n) ELSE obj.quantity
                 u2  == IF unit_val # "" THEN unit_val ELSE obj.unit
                 new == [obj EXCEPT !.quantity = q2, !.unit = u2, !.name = row.name]
             IN  IF uniq_ingredient_user_name_ci(st.ing, obj.id, user, row.name)
                 THEN [st EXCEPT !.ing = {r \in @ : r.id # obj.id} \cup {new},
                                 !.updated = @ + 1]
                 ELSE [st EXCEPT !.errors = @ \cup {row.name}]

\* The Ingredient.DoesNotExist branch: create, with quantity None when the
\* submitted one did not parse and unit "pcs" when none was given; an
\* IntegrityError is caught.
review_create(st, user, row) ==
    CHOOSE x \in
        {IF ins.ok THEN [st EXCEPT !.ing = ins.tbl, !.added = @ + 1]
                   ELSE [st EXCEPT !.errors = @ \cup {row.name}] :
            ins \in {InsertIngredient(st.ing, user, row.name, _to_decimal(row.quantity),
                                      IF row.unit = "" THEN "pcs" ELSE row.unit)}} : TRUE

\* The loop body for one row.
review_row(st, user, row) ==
    IF st.crashed \/ row.delete \/ row.name = "" THEN st
    ELSE IF review_get(st.ing, user, row.name) # {}
    THEN review_merge(st, user, CHOOSE r \in review_get(st.ing, user, row.name) : TRUE, row)
    ELSE review_create(st, user, row)

RECURSIVE review_rows(_, _, _)
review_rows(st, user, rows) ==
    IF rows = <<>> THEN st
    ELSE review_rows(CHOOSE x \in {review_row(s, user, Head(rows)) : s \in {st}} : TRUE,
                     user, Tail(rows))

\* pantry_extract_review, POST: the upload must be the user's (404 otherwise),
\* an invalid formset is rendered again, a valid one is applied row by row.
pantry_extract_review(d, user, upload_id, valid, rows) ==
    IF ~\E up \in d.uploads : up.id = upload_id /\ up.user = user
    THEN [db |-> d, status |-> "404", added |-> 0, updated |-> 0, errors |-> {}]
    ELSE IF ~valid
    THEN [db |-> d, status |-> "form_error", added |-> 0, updated |-> 0, errors |-> {}]
    ELSE CHOOSE x \in
            {[db |-> [d EXCEPT !.ingredients = st.ing],
              status |-> IF st.crashed THEN "500" ELSE "redirect",
              added |-> st.added, updated |-> st.updated, errors |-> st.errors] :
                st \in {review_rows([ing |-> d.ingredients, added |-> 0, updated |-> 0,
                                     errors |-> {}, crashed |-> FALSE], user, rows)}} : TRUE

\* ------------------------------------------------------ session result store

\* An id of a session record: an int (Spoonacular) or a str (AI slug).
IntId(n) == [t |-> "int", n |-> n, s |-> ""]
StrId(s) == [t |-> "str", n |-> 0, s |-> s]

\* str() of the ints the model uses.
IntStr(n) ==
    CASE n = 101 -> "101"
      [] n = 102 -> "102"
      [] n = 1   -> "1"
      [] n = 2   -> "2"
      [] n = 3   -> "3"
      [] n = 4   -> "4"
      [] n = 5   -> "5"
      [] OTHER   -> "0"

\* str(item.get("id"))
str_id(x) == IF x.t = "int" THEN IntStr(x.n) ELSE x.s

NoBundle == [ai |-> <<>>, web |-> <<>>, combined |-> <<>>]

\* _get_session_list_for_source (the legacy keys recipes_results_ai/_web are
\* written by no view, so they read as empty).
session_list_any_source(sess, source) == sess.combined
_get_session_list_for_source(sess, source) ==
    IF source = "ai" THEN sess.ai
    ELSE IF source = "web" THEN sess.web
    ELSE <<>>

\* _get_session_recipe: the first record of the source's list whose id has
\* the string form of rid; <<>> is None.
_get_session_recipe(sess, source, rid) ==
    LET lst == _get_session_list_for_source(sess, source)
        hit == {i \in 1..Len(lst) : str_id(lst[i].id) = rid}
    IN  IF hit = {} THEN <<>> ELSE <<lst[CHOOSE i \in hit : \A j \in hit : i <= j]>>

\* ---------------------------------------------------------- SavedRecipe rows

\* title[:200] on the titles the model uses: "L201" is a title of 201
\* characters and "L200" its first 200.
Trunc200(t) == IF t = "L201" THEN "L200" ELSE t

\* str.strip() on the texts the model uses.
Strip(t) ==
    CASE t = " egg"  -> "egg"
      [] t = "   "   -> ""
      [] t = " Soup " -> "Soup"
      [] OTHER       -> t

\* UniqueConstraint(fields=["user", "source", "external_id"])
NoConstraint_saved_recipe(tbl, self, user, source, external_id) == TRUE
uniq_saved_recipe_user_source_extid(tbl, self, user, source, external_id) ==
    \A r \in tbl : r.id # self =>
        ~(r.user = user /\ r.source = source /\ r.external_id = external_id)

\* str(uuid4()) of SavedRecipe.save: a value no row holds yet.
UuidPool == <<"uuid-a", "uuid-b", "uuid-c", "uuid-d">>
FreshUuid(tbl) ==
    LET free == {i \in 1..Len(UuidPool) : \A r \in tbl : r.external_id # UuidPool[i]}
    IN  UuidPool[CHOOSE i \in free : \A j \in free : i <= j]

\* SavedRecipe.save() of a new row: a blank external_id becomes a uuid, then
\* INSERT under the unique constraint.
InsertSavedRecipe(tbl, user, source, external_id, title, image_url, ingredients, steps) ==
    LET ext == IF external_id = "" THEN FreshUuid(tbl) ELSE external_id
    IN  IF uniq_saved_recipe_user_source_extid(tbl, 0, user, source, ext)
        THEN [ok |-> TRUE,
              tbl |-> tbl \cup {[id |-> NewId(tbl), user |-> user, source |-> source,
                                 external_id |-> ext, title |-> title,
                                 image_url |-> image_url, ingredients |-> ingredients,
                                 steps |-> steps]}]
        ELSE [ok |-> FALSE, tbl |-> tbl]

\* save_favorite's ingredient list: texts of Spoonacular-like dicts when the
\* first entry is a dict, else str(x).strip() of every entry, blanks dropped.
\* An entry is [dict: BOOLEAN, text].
fav_ingredients(raw) ==
    IF raw # <<>> /\ raw[1].dict
    THEN LET keep == SelectSeq(raw, LAMBDA e : e.text # "")
         IN  [i \in 1..Len(keep) |-> Strip(keep[i].text)]
    ELSE LET keep == SelectSeq(raw, LAMBDA e : Strip(e.text) # "")
         IN  [i \in 1..Len(keep) |-> Strip(keep[i].text)]

\* The generic steps save_favorite gives an AI recipe without steps; the
\* title picks the list ("smoothie" in the title, or none of the keywords).
AiFallbackSteps(title) ==
    IF title = "Berry Smoothie"
    THEN <<"Add all ingredients to a blender.", "Blend until completely smooth.",
           "Taste and adjust sweetness or thickness as desired.",
           "Pour into a glass and serve immediately.">>
    ELSE <<"Prep ingredients (wash, peel, chop as needed).",
           "Combine and season to taste.", "Cook or chill if appropriate.", "Serve.">>

\* save_favorite's steps: the record's step list (a string is split into its
\* non-blank lines, which is how the model holds it), blanks dropped.
fav_steps(recipe, source, title) ==
    LET keep  == SelectSeq(recipe.steps, LAMBDA x : Strip(x) # "")
        steps == [i \in 1..Len(keep) |-> Strip(keep[i])]
    IN  IF steps = <<>> /\ source = "ai" THEN AiFallbackSteps(title) ELSE steps

\* `title and obj.title != title[:200]`
title_differs_untruncated(obj_title, title) == title # "" /\ obj_title # title
title_differs(obj_title, title) == title # "" /\ obj_title # Trunc200(title)

\* save_favorite(request, source, recipe_id), for the user's session sess.
save_favorite(d, sess, user, source, recipe_id) ==
    IF source \notin {"ai", "web"} THEN [db |-> d, status |-> "unknown_source"]
    ELSE
    LET found == _get_session_recipe(sess, source, recipe_id)
    IN  IF found = <<>> THEN [db |-> d, status |-> "not_available"]
    ELSE
    LET recipe      == found[1]
        external_id == str_id(recipe.id)
        title       == IF Strip(recipe.title) = "" THEN "Untitled" ELSE Strip(recipe.title)
        image_url   == recipe.image
        ingredients == fav_ingredients(recipe.ingredients)
        steps       == fav_steps(recipe, source, title)
        have == {r \in d.savedRecipes : r.user = user /\ r.source = source
                                        /\ r.external_id = external_id}
    IN  IF have = {}
        THEN \* get_or_create creates
             LET ins == InsertSavedRecipe(d.savedRecipes, user, source, external_id,
                                          Trunc200(title), image_url, ingredients, steps)
             IN  IF ins.ok
                 THEN [db |-> [d EXCEPT !.savedRecipes = ins.tbl], status |-> "saved"]
                 ELSE [db |-> d, status |-> "could_not_save"]
        ELSE LET obj == CHOOSE r \in have : TRUE
                 o1  == IF image_url # "" /\ obj.image_url = ""
                        THEN [obj EXCEPT !.image_url = image_url] ELSE obj
                 o2  == IF ingredients # <<>> /\ obj.ingredients = <<>>
                        THEN [o1 EXCEPT !.ingredients = ingredients] ELSE o1
                 o3  == IF steps # <<>> /\ obj.steps = <<>>
                        THEN [o2 EXCEPT !.steps = steps] ELSE o2
                 o4  == IF title_differs(obj.title, title)
                        THEN [o3 EXCEPT !.title = Trunc200(title)] ELSE o3
                 updated == (image_url # "" /\ obj.image_url = "")
                            \/ (ingredients # <<>> /\ obj.ingredients = <<>>)
                            \/ (steps # <<>> /\ obj.steps = <<>>)
                            \/ title_differs(obj.title, title)
             IN  [db |-> [d EXCEPT !.savedRecipes = (@ \ {obj}) \cup {o4}],
                  status |-> IF updated THEN "updated" ELSE "already"]

\* An answer of Spoonacular's complexSearch to the image lookup: the key is
\* configured or not, the request raises or gives a status and the image of
\* the first result ("" for no result or a blank image).
ImageAnswer(key, raises, status, image) ==
    [key |-> key, raises |-> raises, status |-> status, image |-> image]

\* spoonacular_image_for(title): "" is None.
spoonacular_image_unchecked(title, up) == Strip(up.image)
spoonacular_image_for(title, up) ==
    IF Strip(title) = "" \/ ~up.key THEN ""
    ELSE IF up.raises THEN ""
    ELSE IF up.status # 200 THEN ""
    ELSE Strip(up.image)

\* cache_remote_image_to_storage(url): the name `folder` it builds the file
\* name from is defined nowhere, so the body raises NameError inside its own
\* try whenever the download succeeds, and None comes back either way.
cache_remote_image_to_storage(url) == ""

\* it["image"] = final_url for the records of lst whose id reads key_str.
attach_image(lst, key_str, final_url) ==
    [i \in 1..Len(lst) |->
        IF str_id(lst[i].id) = key_str THEN [lst[i] EXCEPT !.image = final_url]
        ELSE lst[i]]

\* recipe_detail(request, source, recipe_id): Http404 for a record the
\* session does not hold, else the page; an AI record without image gets the
\* looked-up one, written back to the bundle's combined and ai lists.
recipe_detail(sess, source, key_str, up) ==
    LET found == _get_session_recipe(sess, source, key_str)
    IN  IF found = <<>> THEN [session |-> sess, status |-> "404"]
        ELSE
        LET recipe     == found[1]
            title      == Strip(recipe.title)
            remote_url == spoonacular_image_for(title, up)
            cached_url == IF remote_url # "" THEN cache_remote_image_to_storage(remote_url)
                          ELSE ""
            final_url  == IF cached_url # "" THEN cached_url ELSE remote_url
        IN  IF source = "ai" /\ recipe.image = "" /\ title # "" /\ final_url # ""
            THEN [session |-> [sess EXCEPT
                                 !.combined = attach_image(@, key_str, final_url),
                                 !.ai = attach_image(@, key_str, final_url)],
                  status |-> "page"]
            ELSE [session |-> sess, status |-> "page"]

\* favorite_delete: get_object_or_404(SavedRecipe, pk=pk, user=request.user);
\* Meal.recipe is on_delete=SET_NULL (0 is NULL).
DeleteSavedRecipe(d, pk) ==
    [d EXCEPT !.savedRecipes = {r \in @ : r.id # pk},
              !.meals = {IF m.recipe = pk THEN [m EXCEPT !.recipe = 0] ELSE m : m \in @}]

favorite_delete(d, user, pk) ==
    IF \E r \in d.savedRecipes : r.id = pk /\ r.user = user
    THEN [db |-> DeleteSavedRecipe(d, pk), status |-> "removed"]
    ELSE [db |-> d, status |-> "404"]

\* recipe_create, POST: SavedRecipeForm (clean_title refuses a blank title;
\* the unique constraint is not validated by the form, user not being one of
\* its fields), then obj.save(): an IntegrityError is caught by nothing.
recipe_create(d, user, source, external_id, title) ==
    IF Strip(title) = "" THEN [db |-> d, status |-> "form_error"]
    ELSE LET ins == InsertSavedRecipe(d.savedRecipes, user, source, external_id,
                                      Strip(title), "", <<>>, <<>>)
         IN  IF ins.ok
             THEN [db |-> [d EXCEPT !.savedRecipes = ins.tbl], status |-> "redirect"]
             ELSE [db |-> d, status |-> "500"]

\* recipe_update, POST: 404 for no such row, PermissionDenied for a row of
\* another user (no user of the model is a superuser), then form.save().
recipe_update(d, user, pk, source, external_id, title) ==
    IF ~\E r \in d.savedRecipes : r.id = pk THEN [db |-> d, status |-> "404"]
    ELSE
    LET obj == CHOOSE r \in d.savedRecipes : r.id = pk
    IN  IF obj.user # user THEN [db |-> d, status |-> "403"]
        ELSE IF Strip(title) = "" THEN [db |-> d, status |-> "form_error"]
        ELSE LET ext == IF external_id = "" THEN FreshUuid(d.savedRecipes) ELSE external_id
                 new == [obj EXCEPT !.source = source, !.external_id = ext,
                                    !.title = Strip(title)]
             IN  IF uniq_saved_recipe_user_source_extid(d.savedRecipes, pk, obj.user,
                                                        source, ext)
                 THEN [db |-> [d EXCEPT !.savedRecipes = (@ \ {obj}) \cup {new}],
                       status |-> "redirect"]
                 ELSE [db |-> d, status |-> "500"]

\* recipe_delete
recipe_delete(d, user, pk) ==
    IF ~\E r \in d.savedRecipes : r.id = pk THEN [db |-> d, status |-> "404"]
    ELSE LET obj == CHOOSE r \in d.savedRecipes : r.id = pk
         IN  IF obj.user # user THEN [db |-> d, status |-> "403"]
             ELSE [db |-> DeleteSavedRecipe(d, pk), status |-> "redirect"]

\* ------------------------------------------------------- MealPlan, Meal rows

Slots == {"breakfast", "lunch", "dinner", "snack"}

\* date.weekday(): day 0 is a Monday.
weekday(day) == day % 7

\* _monday_for / _week_start
_monday_for(anchor) == anchor - weekday(anchor)
_week_start(day) == day - weekday(day)

\* UniqueConstraint(fields=["user", "start_date"])
NoConstraint_mealplan(tbl, user, start_date) == TRUE
uniq_mealplan_user_start(tbl, user, start_date) ==
    \A r \in tbl : ~(r.user = user /\ r.start_date = start_date)

\* UniqueConstraint(fields=["plan", "date", "meal_type"])
NoConstraint_meal(tbl, self, plan, date, meal_type) == TRUE
unique_meal_slot(tbl, self, plan, date, meal_type) ==
    \A r \in tbl : r.id # self =>
        ~(r.plan = plan /\ r.date = date /\ r.meal_type = meal_type)

\* MealPlan.objects.get_or_create(user=, start_date=): [db, plan: the plan's
\* id, 0 when the INSERT was refused].
GetOrCreatePlan(d, user, start_date) ==
    LET have == {r \in d.mealPlans : r.user = user /\ r.start_date = start_date}
    IN  IF have # {}
        THEN [db |-> d, plan |-> (CHOOSE r \in have : \A q \in have : r.id <= q.id).id]
        ELSE IF uniq_mealplan_user_start(d.mealPlans, user, start_date)
        THEN LET id == NewId(d.mealPlans)
             IN  [db |-> [d EXCEPT !.mealPlans = @ \cup
                              {[id |-> id, user |-> user, start_date |-> start_date]}],
                  plan |-> id]
        ELSE [db |-> d, plan |-> 0]

\* meal_plan_view: ?week=<date> (a missing or unparsable one, given as -1,
\* means today); gets or creates the plan of that week and renders it.
meal_plan_view(d, now, user, week) ==
    LET anchor == IF week < 0 THEN now ELSE week
    IN  [db |-> GetOrCreatePlan(d, user, _monday_for(anchor)).db, status |-> "page"]

\* meal_add: recipe_id 0, date -1, meal_type "" are missing fields; the plan is got or created
\* before the recipe is looked up; a meal_type that is no slot becomes lunch;
\* Meal.objects.update_or_create on (plan, date, meal_type).
meal_add(d, user, recipe_id, date, meal_type) ==
    IF recipe_id = 0 \/ date < 0 \/ meal_type = "" THEN [db |-> d, status |-> "missing"]
    ELSE
    LET gp   == GetOrCreatePlan(d, user, _monday_for(date))
        d1   == gp.db
        slot == IF meal_type \in Slots THEN meal_type ELSE "lunch"
    IN  IF ~\E r \in d1.savedRecipes : r.id = recipe_id /\ r.user = user
        THEN [db |-> d1, status |-> "404"]
        ELSE
        LET have == {m \in d1.meals : m.plan = gp.plan /\ m.date = date
                                      /\ m.meal_type = slot}
        IN  IF have # {}
            THEN LET m == CHOOSE x \in have : TRUE
                 IN  [db |-> [d1 EXCEPT !.meals = (@ \ {m}) \cup
                                  {[m EXCEPT !.recipe = recipe_id]}],
                      status |-> "updated"]
            ELSE IF unique_meal_slot(d1.meals, 0, gp.plan, date, slot)
            THEN [db |-> [d1 EXCEPT !.meals = @ \cup
                             {[id |-> NewId(d1.meals), plan |-> gp.plan, date |-> date,
                               meal_type |-> slot, recipe |-> recipe_id]}],
                  status |-> "added"]
            ELSE [db |-> d1, status |-> "500"]

\* meal_delete: get_object_or_404(Meal, pk=meal_id, plan__user=request.user)
meal_delete(d, user, meal_id) ==
    IF \E m \in d.meals : m.id = meal_id
                          /\ \E p \in d.mealPlans : p.id = m.plan /\ p.user = user
    THEN [db |-> [d EXCEPT !.meals = {m \in @ : m.id # meal_id}], status |-> "removed"]
    ELSE [db |-> d, status |-> "404"]

\* ------------------------------------------------------------ LoggedMeal rows

\* LoggedMeal.objects.create(...): date is auto_now_add, so the row is dated
\* with the server's current date whatever date= was passed; quantity is the
\* field's default 1.0, held in half servings.
CreateLoggedMeal(tbl, now, user, date, meal_type, source_recipe_id, cals, p, c, f) ==
    tbl \cup {[id |-> NewId(tbl), user |-> user, date |-> now, meal_type |-> meal_type,
               source_recipe_id |-> source_recipe_id, calories |-> cals,
               protein_g |-> p, carbs_g |-> c, fat_g |-> f, fiber_g |-> 0, sugar_g |-> 0,
               quantity |-> 2]}

\* round(x) of Python for x = num/den >= 0 held exactly: the nearest integer,
\* the even one at a tie.
RoundHalfEven(num, den) ==
    LET q == num \div den
        r == num % den
    IN  IF 2 * r < den THEN q
        ELSE IF 2 * r > den THEN q + 1
        ELSE IF q % 2 = 0 THEN q ELSE q + 1

\* log_custom_meal: a LoggedMeal for today with the macros times the quantity
\* (halves: the quantity, a float, in half servings); then the mirror into
\* the meal plan, whose meals_rel.create(title=...) raises TypeError (Meal has
\* no title), which the view's except turns into "Meal logged.".
log_custom_meal(d, now, user, meal_type, cals, p, c, f, halves) ==
    LET day == now
        lm  == CreateLoggedMeal(d.loggedMeals, now, user, day, meal_type, "",
                                RoundHalfEven(cals * halves, 2),
                                RoundHalfEven(p * halves, 2),
                                RoundHalfEven(c * halves, 2),
                                RoundHalfEven(f * halves, 2))
        d1  == [d EXCEPT !.loggedMeals = lm]
        gp  == GetOrCreatePlan(d1, user, _week_start(day))
        conflict == \E m \in gp.db.meals : m.plan = gp.plan /\ m.date = day
                                           /\ m.meal_type = meal_type
    IN  IF gp.plan = 0 THEN [db |-> d1, status |-> "logged"]
        ELSE IF conflict THEN [db |-> gp.db, status |-> "logged_conflict"]
        ELSE [db |-> gp.db, status |-> "logged"]

\* log_recipe_meal: key is the posted "key" or the id of the url, "" when
\* there is neither; a LoggedMeal for today with the macros as posted (per
\* serving) and the quantity (halves: in half servings) beside them.
log_recipe_meal(d, now, user, key, meal_type, cals, p, c, f, halves) ==
    IF Strip(key) = "" THEN [db |-> d, status |-> "not_available"]
    ELSE Bind(NewId(d.loggedMeals), LAMBDA id :
         Bind(CreateLoggedMeal(d.loggedMeals, now, user, now,
                               Lower(Strip(IF meal_type = "" THEN "lunch" ELSE meal_type)),
                               Strip(key), cals, p, c, f), LAMBDA tbl :
            [db |-> [d EXCEPT !.loggedMeals =
                        {IF m.id = id THEN [m EXCEPT !.quantity = halves] ELSE m :
                            m \in tbl}],
             status |-> "logged"]))

\* delete_meal: get_object_or_404(LoggedMeal, id=meal_id, user=request.user)
delete_meal(d, user, meal_id) ==
    IF \E m \in d.loggedMeals : m.id = meal_id /\ m.user = user
    THEN [db |-> [d EXCEPT !.loggedMeals = {m \in @ : m.id # meal_id}],
          status |-> "removed"]
    ELSE [db |-> d, status |-> "404"]

\* ------------------------------------------------- services/nutrition.py

\* Meal.Meta.ordering = ["date", "meal_type"]: the slots in string order.
SlotRank(slot) ==
    CASE slot = "breakfast" -> 1
      [] slot = "dinner"    -> 2
      [] slot = "lunch"     -> 3
      [] slot = "snack"     -> 4
      [] OTHER              -> 5

\* The rows of a set in the order of a key, a function on them (ties by id).
RECURSIVE InOrder(_, _)
InOrder(S, key) ==
    IF S = {} THEN <<>>
    ELSE LET m == CHOOSE x \in S : \A y \in S :
                      key[x] < key[y] \/ (key[x] = key[y] /\ x.id <= y.id)
         IN  <<m>> \o InOrder(S \ {m}, key)

\* The body of sync_logged_meals_from_plan's inner loop for one plan item of
\* the day: skipped when (user, day, meal_type, recipe_id) is logged already.
sync_item(tbl, now, user, day, item) ==
    LET meal_type == IF item.meal_type = "" THEN "lunch" ELSE item.meal_type
        recipe_id == IF item.recipe = 0 THEN "" ELSE IntStr(item.recipe)
        exists == \E m \in tbl : m.user = user /\ m.date = day
                                 /\ m.meal_type = meal_type
                                 /\ m.source_recipe_id = recipe_id
    IN  IF exists THEN tbl
        ELSE CreateLoggedMeal(tbl, now, user, day, meal_type, recipe_id, 0, 0, 0, 0)

RECURSIVE sync_items(_, _, _, _, _)
sync_items(tbl, now, user, day, items) ==
    IF items = <<>> THEN tbl
    ELSE sync_items(sync_item(tbl, now, user, day, Head(items)), now, user, day,
                    Tail(items))

\* sync_logged_meals_from_plan(user, day), run when the server's date is now:
\* the plans of the user that start on day's Monday (or, when there is none,
\* in the 6 days before it), their items dated day, each copied unless logged.
sync_logged_meals_from_plan(d, now, user, day) ==
    LET start  == _week_start(day)
        exact  == {p \in d.mealPlans : p.user = user /\ p.start_date = start}
        plans  == IF exact # {} THEN exact
                  ELSE {p \in d.mealPlans : p.user = user /\ p.start_date >= start - 6
                                            /\ p.start_date <= start}
        items  == {m \in d.meals : m.date = day /\ \E p \in plans : p.id = m.plan}
        PlanStart(m) == (CHOOSE p \in plans : p.id = m.plan).start_date
        Key == [m \in items |-> (MaxDay + 7 - PlanStart(m)) * 10 + SlotRank(m.meal_type)]
    IN  [d EXCEPT !.loggedMeals = sync_items(@, now, user, day, InOrder(items, Key))]

\* A nullable number of a target: <<>> is None (or a missing attribute).
OrZero(x) == IF x = <<>> THEN 0 ELSE x[1]

\* _pct(n, d): the values round((n / d) * 100) clamped to 0..200 can have.
\* The quotient is a float: where n/d*100 is exactly half-way between two
\* integers the product may fall on either side, so both are possible.
pct_unclamped(n, d) ==
    IF d <= 0 THEN {0}
    ELSE LET q == (100 * n) \div d
             r == (100 * n) % d
         IN  IF 2 * r < d THEN {q}
             ELSE IF 2 * r > d THEN {q + 1}
             ELSE {q, q + 1}
_pct(n, d) ==
    IF d <= 0 THEN {0}
    ELSE {Max2(0, Min2(200, v)) : v \in pct_unclamped(n, d)}

\* The sum of a field over rows.
RECURSIVE SumField(_, _)
SumField(S, f) ==
    IF S = {} THEN 0
    ELSE LET m == CHOOSE x \in S : TRUE IN m[f] + SumField(S \ {m}, f)

\* LoggedMeal.objects.filter(user=user, date=day)
totals_rows_any_day(tbl, user, day) == {m \in tbl : m.user = user}
totals_rows(tbl, user, day) == {m \in tbl : m.user = user /\ m.date = day}

\* compute_daily_totals(user, day, target): the DailyTotals it can return.
compute_daily_totals(d, user, day, target) ==
    LET qs == totals_rows(d.loggedMeals, user, day)
        cal == SumField(qs, "calories")
        pro == SumField(qs, "protein_g")
        car == SumField(qs, "carbs_g")
        fat == SumField(qs, "fat_g")
    IN  {[calories |-> cal, protein_g |-> pro, carbs_g |-> car, fat_g |-> fat,
          fiber_g |-> SumField(qs, "fiber_g"), sugar_g |-> SumField(qs, "sugar_g"),
          calories_pct |-> cp, protein_pct |-> pp, carbs_pct |-> kp, fat_pct |-> fp] :
            cp \in _pct(cal, OrZero(target.calories)),
            pp \in _pct(pro, OrZero(target.protein_g)),
            kp \in _pct(car, OrZero(target.carbs_g)),
            fp \in _pct(fat, OrZero(target.fat_g))}

\* ------------------------------------------------- pantry photo extraction

\* A text is a sequence of characters; an OCR text is the sequence of its
\* lines (str.splitlines()); <<>> is the empty string.

UpperLetters == <<"A", "B", "C", "D", "E", "F", "G", "H", "I", "J", "K", "L", "M", "N", "O", "P", "Q", "R", "S", "T", "U", "V", "W", "X", "Y", "Z">>
LowerLetters == <<"a", "b", "c", "d", "e", "f", "g", "h", "i", "j", "k", "l", "m", "n", "o", "p", "q", "r", "s", "t", "u", "v", "w", "x", "y", "z">>

\* What re.I compares: a letter by its lower case.
UpperSet == {UpperLetters[i] : i \in 1..Len(UpperLetters)}
LowerChar(c) ==
    IF c \in UpperSet
    THEN LowerLetters[CHOOSE i \in 1..Len(UpperLetters) : UpperLetters[i] = c]
    ELSE c

IsDigit(c) == c \in {"0", "1", "2", "3", "4", "5", "6", "7", "8", "9"}
IsSpace(c) == c \in {" ", "\t"}

Sub(t, i, j) == SubSeq(t, i, j)

\* str.strip(chars): the text without its leading and trailing chars.
StripOf(t, chars) ==
    Bind({i \in 1..Len(t) : t[i] \notin chars}, LAMBDA keep :
        IF keep = {} THEN <<>> ELSE Sub(t, Min(keep), Max(keep)))

\* _NUM_RE = (\d+(?:\.\d+)?): the ends j of its matches that start at i.
NumEnds(t, i) ==
    IF i > Len(t) \/ ~IsDigit(t[i]) THEN {}
    ELSE {j \in i..Len(t) :
            \/ \A k \in i..j : IsDigit(t[k])
            \/ \E dot \in (i + 1)..(j - 1) :
                  /\ t[dot] = "."
                  /\ \A k \in i..j : k # dot => IsDigit(t[k])}

\* _UNIT_RE: its alternatives, in the order the regex tries them
\* (teaspoons? tries "teaspoons" before "teaspoon").
_UNIT_RE ==
    <<<<"g">>,
       <<"k", "g">>,
       <<"m", "g">>,
       <<"m", "l">>,
       <<"l">>,
       <<"t", "b", "s", "p">>,
       <<"t", "s", "p">>,
       <<"t", "e", "a", "s", "p", "o", "o", "n", "s">>,
       <<"t", "e", "a", "s", "p", "o", "o", "n">>,
       <<"t", "a", "b", "l", "e", "s", "p", "o", "o", "n", "s">>,
       <<"t", "a", "b", "l", "e", "s", "p", "o", "o", "n">>,
       <<"c", "u", "p">>,
       <<"c", "u", "p", "s">>,
       <<"o", "z">>,
       <<"o", "u", "n", "c", "e">>,
       <<"o", "u", "n", "c", "e", "s">>,
       <<"l", "b">>,
       <<"l", "b", "s">>,
       <<"p", "o", "u", "n", "d">>,
       <<"p", "o", "u", "n", "d", "s">>,
       <<"p", "c">>,
       <<"p", "c", "s">>,
       <<"p", "i", "e", "c", "e">>,
       <<"p", "i", "e", "c", "e", "s">>,
       <<"c", "a", "n">>,
       <<"c", "a", "n", "s">>,
       <<"p", "a", "c", "k">>,
       <<"p", "a", "c", "k", "s">>>>

\* Whether alternative a of _UNIT_RE matches at i (re.I).
UnitAt(t, i, a) ==
    /\ i + Len(a) - 1 <= Len(t)
    /\ \A k \in 1..Len(a) : LowerChar(t[i + k - 1]) = a[k]

\* The ends of the \s+ runs that start at i.
SpaceEnds(t, i) == {j \in i..Len(t) : \A k \in i..j : IsSpace(t[k])}

\* re.findall(_NUM_RE, line)[0]: the leftmost match, as long as it can be.
FirstNum(t) ==
    Bind(Min({i \in 1..Len(t) : IsDigit(t[i])}), LAMBDA i :
        Sub(t, i, Max(NumEnds(t, i))))

\* re.findall(_UNIT_RE, line, flags=re.I)[0]: the leftmost place where an
\* alternative matches, and there the first alternative that does.
FirstUnit(t) ==
    Bind(Min({i \in 1..Len(t) : \E n \in 1..Len(_UNIT_RE) : UnitAt(t, i, _UNIT_RE[n])}),
         LAMBDA i :
    Bind(Min({n \in 1..Len(_UNIT_RE) : UnitAt(t, i, _UNIT_RE[n])}), LAMBDA n :
        Sub(t, i, i + Len(_UNIT_RE[n]) - 1)))

\* ^NUM\s+UNIT\s+(.+)$ read from the left: the \s+(.+)$ after a unit that
\* ends at c, the alternatives of UNIT\s+(.+)$ that match after a \s+ that
\* ends at b, the ends of group 1 (the number) in a match of the pattern.
Rest1(t, c) == \E e \in SpaceEnds(t, c + 1) : e < Len(t)
UnitThen1(t, b) ==
    {n \in 1..Len(_UNIT_RE) :
        UnitAt(t, b + 1, _UNIT_RE[n]) /\ Rest1(t, b + Len(_UNIT_RE[n]))}
Shape1(t) ==
    {a \in NumEnds(t, 1) : \E b \in SpaceEnds(t, a + 1) : UnitThen1(t, b) # {}}

\* ^NUM\s+(.+)$: the ends of group 1 (the number).
Shape2(t) ==
    {a \in NumEnds(t, 1) : \E b \in SpaceEnds(t, a + 1) : b < Len(t)}

\* ^(.+?)\s+NUM\s+UNIT$: the ends of group 1 (the name).
Shape3(t) ==
    {i \in 1..Len(t) :
        \E b \in SpaceEnds(t, i + 1) : \E a \in NumEnds(t, b + 1) :
        \E c \in SpaceEnds(t, a + 1) : \E n \in 1..Len(_UNIT_RE) :
            UnitAt(t, c + 1, _UNIT_RE[n]) /\ c + Len(_UNIT_RE[n]) = Len(t)}

Whitespace == {" ", "\t"}
\* The characters line.strip("•-* \t") removes; "bullet" stands for the glyph.
Bullets == {"bullet", "-", "*", " ", "\t"}

\* m.group(1) of the three patterns: the first group of each is what the
\* code names `name`.  In patterns 1 and 2 the first group is the number.
group1_is_name_shape1(t) ==
    Bind(Max(SpaceEnds(t, Max(Shape1(t)) + 1)), LAMBDA b :
    Bind(Min(UnitThen1(t, b)), LAMBDA n :
        Sub(t, Max(SpaceEnds(t, b + Len(_UNIT_RE[n]) + 1)) + 1, Len(t))))
group1_shape1(t) == Sub(t, 1, Max(Shape1(t)))
group1_is_name_shape2(t) ==
    Sub(t, Max(SpaceEnds(t, Max(Shape2(t)) + 1)) + 1, Len(t))
group1_shape2(t) == Sub(t, 1, Max(Shape2(t)))
group1_shape3(t) == Sub(t, 1, Min(Shape3(t)))

\* One line of _parse_ingredients_from_text, stripped: the candidate of the
\* first pattern that matches, else a name-only candidate.
parse_stripped(line) ==
    IF Shape1(line) # {}
    THEN [name |-> StripOf(group1_shape1(line), Whitespace),
          quantity |-> FirstNum(line), unit |-> FirstUnit(line)]
    ELSE IF Shape2(line) # {}
    THEN [name |-> StripOf(group1_shape2(line), Whitespace),
          quantity |-> FirstNum(line), unit |-> <<>>]
    ELSE IF Shape3(line) # {}
    THEN [name |-> StripOf(group1_shape3(line), Whitespace),
          quantity |-> FirstNum(line), unit |-> FirstUnit(line)]
    ELSE [name |-> line, quantity |-> <<>>, unit |-> <<>>]

\* line = raw.strip("•-* \t").strip(); a blank line gives no candidate.
parse_line(raw) ==
    Bind(StripOf(StripOf(raw, Bullets), Whitespace),
         LAMBDA line : IF line = <<>> THEN <<>> ELSE <<parse_stripped(line)>>)

\* The candidates of the lines i.. of the text.
RECURSIVE parse_lines(_, _)
parse_lines(text, i) ==
    IF i > Len(text) THEN <<>> ELSE parse_line(text[i]) \o parse_lines(text, i + 1)

\* items[:n]
Take(items, n) == SubSeq(items, 1, Min2(n, Len(items)))

OcrCap == 50
VisionCap == 40

\* _parse_ingredients_from_text
_parse_ingredients_from_text(text) ==
    Bind(text, LAMBDA t : Take(parse_lines(t, 1), OcrCap))

\* The loop both vision functions run over the model's items: an item
\* without a name is skipped.
vision_items(items) ==
    Bind(SelectSeq(items, LAMBDA it : StripOf(it.name, Whitespace) # <<>>), LAMBDA named :
        [i \in 1..Len(named) |->
            [name |-> StripOf(named[i].name, Whitespace),
             quantity |-> StripOf(named[i].quantity, Whitespace),
             unit |-> StripOf(named[i].unit, Whitespace)]])

\* _vision_extract_items_with_openai (inline image): [] when the call or the
\* parse of its answer fails, else the named items, all of them.
_vision_extract_items_with_openai(r) == IF r.ok THEN vision_items(r.items) ELSE <<>>

\* _extract_with_openai_vision (image URL): [] on failure, else out[:40].
_extract_with_openai_vision(r) ==
    IF r.ok THEN Take(vision_items(r.items), VisionCap) ELSE <<>>

DemoList ==
    <<[name |-> <<"b", "e", "l", "l", " ", "p", "e", "p", "p", "e", "r">>, quantity |-> <<"2">>, unit |-> <<"p", "c", "s">>],
      [name |-> <<"c", "h", "i", "c", "k", "e", "n", " ", "b", "r", "e", "a", "s", "t">>, quantity |-> <<"2", "0", "0">>, unit |-> <<"g">>],
      [name |-> <<"o", "n", "i", "o", "n">>, quantity |-> <<"1">>, unit |-> <<"p", "c">>]>>

\* _extract_candidates(image_path, image_url): text is what _ocr_extract_text
\* gave ("" when it failed), inline and url what the two vision calls answer
\* when they are made.  [candidates, stages: the stages run, in order].
extract_no_guard(text, inline, url, has_url) ==
    Bind(_vision_extract_items_with_openai(inline), LAMBDA c2 :
    Bind(IF has_url THEN _extract_with_openai_vision(url) ELSE c2, LAMBDA c3 :
        [candidates |-> IF c3 = <<>> THEN DemoList ELSE c3,
         stages |-> <<"ocr", "vision_inline">>
                    \o (IF has_url THEN <<"vision_url">> ELSE <<>>)
                    \o (IF c3 = <<>> THEN <<"demo">> ELSE <<>>)]))
_extract_candidates(text, inline, url, has_url) ==
    Bind(IF text # <<>> THEN _parse_ingredients_from_text(text) ELSE <<>>, LAMBDA c1 :
    Bind(IF c1 = <<>> THEN _vision_extract_items_with_openai(inline) ELSE c1, LAMBDA c2 :
    Bind(IF c2 = <<>> /\ has_url THEN _extract_with_openai_vision(url) ELSE c2, LAMBDA c3 :
        [candidates |-> IF c3 = <<>> THEN DemoList ELSE c3,
         stages |-> <<"ocr">>
                    \o (IF c1 = <<>> THEN <<"vision_inline">> ELSE <<>>)
                    \o (IF c2 = <<>> /\ has_url THEN <<"vision_url">> ELSE <<>>)
                    \o (IF c3 = <<>> THEN <<"demo">> ELSE <<>>)])))

\* pantry_extract_start: rejected without a file and without a key; else a
\* PantryImageUpload row, the pipeline (the image always has a URL), and the
\* candidates stored with status done.
pantry_extract_start(d, user, uploaded, s3_key, text, inline, url) ==
    IF ~uploaded /\ s3_key = ""
    THEN [db |-> d, status |-> "no_image", stages |-> <<>>, upload |-> 0]
    ELSE Bind(_extract_candidates(text, inline, url, TRUE), LAMBDA ex :
            [db |-> [d EXCEPT !.uploads = @ \cup
                        {[id |-> NewId(d.uploads), user |-> user, status |-> "done",
                          candidates |-> ex.candidates]}],
             status |-> "redirect", stages |-> ex.stages, upload |-> NewId(d.uploads)])

\* ------------------------------------------------ recipes_search's store

\* x["title"].lower() as a sort key, on the titles the model uses.
Spell(t) ==
    CASE t = "Berry Smoothie" -> <<"B", "e", "r", "r", "y", " ", "S", "m", "o", "o", "t", "h", "i", "e">>
      [] t = "L201"           -> <<"L", "2", "0", "1">>
      [] t = "Pasta"          -> <<"P", "a", "s", "t", "a">>
      [] t = "apple pie"      -> <<"a", "p", "p", "l", "e", " ", "p", "i", "e">>
      [] t = "Banana bread"   -> <<"B", "a", "n", "a", "n", "a", " ", "b", "r", "e", "a", "d">>
      [] t = "Zucchini"       -> <<"Z", "u", "c", "c", "h", "i", "n", "i">>
      [] t = "bell pepper"     -> <<"b", "e", "l", "l", " ", "p", "e", "p", "p", "e", "r">>
      [] t = "chicken breast"  -> <<"c", "h", "i", "c", "k", "e", "n", " ", "b", "r", "e", "a", "s", "t">>
      [] t = "scallions"       -> <<"s", "c", "a", "l", "l", "i", "o", "n", "s">>
      [] t = "beef"            -> <<"b", "e", "e", "f">>
      [] t = "bell peper"      -> <<"b", "e", "l", "l", " ", "p", "e", "p", "e", "r">>
      [] t = "bell peppers"    -> <<"b", "e", "l", "l", " ", "p", "e", "p", "p", "e", "r", "s">>
      [] t = "chicken breast fillet" -> <<"c", "h", "i", "c", "k", "e", "n", " ", "b", "r", "e", "a", "s", "t", " ", "f", "i", "l", "l", "e", "t">>
      [] t = "Sirloin Steak"   -> <<"S", "i", "r", "l", "o", "i", "n", " ", "S", "t", "e", "a", "k">>
      [] t = "pepper"          -> <<"p", "e", "p", "p", "e", "r">>
      [] t = "salt"            -> <<"s", "a", "l", "t">>
      [] t = "red peppers"     -> <<"r", "e", "d", " ", "p", "e", "p", "p", "e", "r", "s">>
      [] t = " Capsicum "      -> <<" ", "C", "a", "p", "s", "i", "c", "u", "m", " ">>
      [] t = "green onion"     -> <<"g", "r", "e", "e", "n", " ", "o", "n", "i", "o", "n">>
      [] t = "onion"           -> <<"o", "n", "i", "o", "n">>
      [] OTHER                -> <<>>
Titles == {"Berry Smoothie", "L201", "Pasta", "apple pie", "Banana bread", "Zucchini"}

\* The characters in code-point order, and a character's place in it.
CodePoints == <<" ", "0", "1", "2">> \o UpperLetters \o LowerLetters
Ord(c) == CHOOSE i \in 1..Len(CodePoints) : CodePoints[i] = c

\* a < b for two str, as Python compares them.
RECURSIVE StrLess(_, _)
StrLess(a, b) ==
    IF b = <<>> THEN FALSE
    ELSE IF a = <<>> THEN TRUE
    ELSE IF Ord(Head(a)) # Ord(Head(b)) THEN Ord(Head(a)) < Ord(Head(b))
    ELSE StrLess(Tail(a), Tail(b))

\* str.lower()
LowerStr(t) == [i \in 1..Len(t) |-> LowerChar(t[i])]

\* The place of a title among the titles by the key the sort uses.
TitleRankCased(t) ==
    Bind(Spell(t), LAMBDA k :
        Cardinality({u \in Titles : Bind(Spell(u), LAMBDA ku : StrLess(ku, k))}))
TitleRank(t) ==
    Bind(LowerStr(Spell(t)), LAMBDA k :
        Cardinality({u \in Titles : Bind(LowerStr(Spell(u)), LAMBDA ku : StrLess(ku, k))}))

\* list.sort(key=...): a stable sort of a sequence by a numeric key.
RECURSIVE sort_by_key(_, _)
sort_by_key(q, key) ==
    IF q = <<>> THEN <<>>
    ELSE Bind(CHOOSE m \in {key[i] : i \in 1..Len(q)} :
                  \A i \in 1..Len(q) : m <= key[i], LAMBDA lo :
         Bind(CHOOSE i \in 1..Len(q) :
                  key[i] = lo /\ \A j \in 1..Len(q) : key[j] = lo => i <= j, LAMBDA at :
            LET rest(x) == [n \in 1..(Len(q) - 1) |-> IF n < at THEN x[n] ELSE x[n + 1]]
            IN  Bind(rest(q), LAMBDA q1 :
                Bind(rest(key), LAMBDA key1 : <<q[at]>> \o sort_by_key(q1, key1)))))

\* _combine_and_store_results: the bundle kept under session["recipe_results"].
_combine_and_store_results(ai_items, web_items) ==
    Bind(ai_items \o web_items, LAMBDA combined :
    Bind([i \in 1..Len(combined) |->
             (IF combined[i].source = "ai" THEN 0 ELSE 1) * 10
             + TitleRank(combined[i].title)], LAMBDA key :
        [ai |-> ai_items, web |-> web_items, combined |-> sort_by_key(combined, key)]))

\* recipes_search, given what _openai_generate and _spoonacular_search
\* answered: with no result at all a warning and the dashboard, the session
\* as it was; else the new bundle and the results page.
recipes_search(sess, ai_items, web_items) ==
    IF web_items = <<>> /\ ai_items = <<>>
    THEN [session |-> sess, status |-> "no_recipes"]
    ELSE [session |-> _combine_and_store_results(ai_items, web_items),
          status |-> "redirect"]

\* --------------------------------------------------- _openai_generate

\* A JSON value as json.loads gives it.
JNull == [t |-> "null"]
JStr(x) == [t |-> "str", s |-> x]
JInt(x) == [t |-> "int", n |-> x]
JList(q) == [t |-> "list", items |-> q]
JDict(f) == [t |-> "dict", f |-> f]

\* bool(v)
Truthy(v) ==
    CASE v.t = "null" -> FALSE
      [] v.t = "str"  -> v.s # ""
      [] v.t = "int"  -> v.n # 0
      [] v.t = "list" -> v.items # <<>>
      [] v.t = "dict" -> DOMAIN v.f # {}

\* d.get(k)
JGet(d, k) == IF k \in DOMAIN d.f THEN d.f[k] ELSE JNull

\* (r.get(k) or "").strip(): [ok: no exception, s: the text].  A truthy
\* value that is no str has no strip(): AttributeError.
get_stripped(r, k) ==
    Bind(JGet(r, k), LAMBDA v :
        IF ~Truthy(v) THEN [ok |-> TRUE, s |-> ""]
        ELSE IF v.t = "str" THEN [ok |-> TRUE, s |-> Strip(v.s)]
        ELSE [ok |-> FALSE, s |-> ""])

\* f"AI recipe {ix+1}"
AiRecipeTitle(ix) ==
    CASE ix = 0 -> "AI recipe 1"
      [] ix = 1 -> "AI recipe 2"
      [] ix = 2 -> "AI recipe 3"
      [] OTHER  -> "AI recipe 4"

\* _slugify_title(title, ix), kept as the pair it is computed from.
_slugify_title(title, ix) == [t |-> "slug", n |-> ix, s |-> title]

\* The body of the loop over data["recipes"] for entry r at index ix:
\* [ok: no exception, rec: the record appended].
ai_record(r0, ix) ==
    Bind(IF r0.t = "dict" THEN r0 ELSE JDict(<<>>), LAMBDA r :
    Bind(get_stripped(r, "title"), LAMBDA ti :
    Bind(get_stripped(r, "id"), LAMBDA id :
    Bind(get_stripped(r, "summary"), LAMBDA su :
    Bind(IF ti.s = "" THEN AiRecipeTitle(ix) ELSE ti.s, LAMBDA title :
        [ok  |-> ti.ok /\ id.ok /\ su.ok,
         rec |-> [id |-> IF id.s = "" THEN _slugify_title(title, ix) ELSE StrId(id.s),
                  title |-> title, summary |-> su.s, source |-> "ai"]])))))

\* The loop over a list of entries, from index ix on: [ok, recipes].
RECURSIVE ai_records(_, _)
ai_records(raw, ix) ==
    IF ix >= Len(raw) THEN [ok |-> TRUE, recipes |-> <<>>]
    ELSE Bind(ai_record(raw[ix + 1], ix), LAMBDA one :
            IF ~one.ok THEN [ok |-> FALSE, recipes |-> <<>>]
            ELSE Bind(ai_records(raw, ix + 1), LAMBDA rest :
                    [ok |-> rest.ok, recipes |-> <<one.rec>> \o rest.recipes]))

\* A model text is a sequence of lines, a line a sequence of cells (what
\* "|" separates), a cell a sequence of tokens: a word (text without braces
\* or pipes), obj (the text of a JSON object, with its value), junk (a
\* brace group that is no JSON, as "{salt}"), lbr "[", rbr "]", num (a JSON
\* number).
Word(w) == [k |-> "word", w |-> w]
Obj(v) == [k |-> "obj", v |-> v]
Junk == [k |-> "junk"]
LBr == [k |-> "lbr"]
RBr == [k |-> "rbr"]
Num == [k |-> "num"]

RECURSIVE Flatten(_)
Flatten(qq) == IF qq = <<>> THEN <<>> ELSE Head(qq) \o Flatten(Tail(qq))

\* The tokens of the text, and whether it has a pipe.
Tokens(text) == Flatten(Flatten(text))
HasPipe(text) == \E i \in 1..Len(text) : Len(text[i]) > 1

\* json.loads(text): [ok, v].
json_loads(text) ==
    Bind(Tokens(text), LAMBDA tk :
        IF HasPipe(text) THEN [ok |-> FALSE, v |-> JNull]
        ELSE IF Len(tk) = 1 /\ tk[1].k = "obj" THEN [ok |-> TRUE, v |-> tk[1].v]
        ELSE IF Len(tk) = 1 /\ tk[1].k = "num" THEN [ok |-> TRUE, v |-> JInt(7)]
        ELSE IF Len(tk) = 2 /\ tk[1].k = "lbr" /\ tk[2].k = "rbr"
        THEN [ok |-> TRUE, v |-> JList(<<>>)]
        ELSE IF Len(tk) = 3 /\ tk[1].k = "lbr" /\ tk[2].k = "obj" /\ tk[3].k = "rbr"
        THEN [ok |-> TRUE, v |-> JList(<<tk[2].v>>)]
        ELSE [ok |-> FALSE, v |-> JNull])

\* re.search(r"\{.*\}", text, flags=re.S) and json.loads of the match: the
\* match runs from the first "{" to the last "}" of the text, and parses
\* when that is one JSON object.
Braced(tk) == {i \in 1..Len(tk) : tk[i].k \in {"obj", "junk"}}
embedded_json(text) ==
    Bind(Tokens(text), LAMBDA tk :
        IF Braced(tk) # {} /\ Min(Braced(tk)) = Max(Braced(tk))
           /\ tk[Min(Braced(tk))].k = "obj"
        THEN [ok |-> TRUE, v |-> tk[Min(Braced(tk))].v]
        ELSE [ok |-> FALSE, v |-> JNull])

\* _extract_json_block(text): [v: the value or JNull for None, stages: the
\* strategies tried].
_extract_json_block(text) ==
    IF Tokens(text) = <<>> THEN [v |-> JNull, stages |-> <<>>]
    ELSE IF json_loads(text).ok THEN [v |-> json_loads(text).v, stages |-> <<"json">>]
    ELSE [v |-> embedded_json(text).v, stages |-> <<"json", "embedded">>]

\* cell.strip() of a cell of the sample tables: its word, "" when empty.
CellText(cell) ==
    IF cell = <<>> THEN ""
    ELSE IF Len(cell) = 1 /\ cell[1].k = "word" THEN Strip(cell[1].w)
    ELSE "mixed"

\* _parse_markdown_table(md): the non-blank lines; none when fewer than two;
\* the first gives the headers, the second is skipped, each further line is
\* a row {header: cell, "" past the last cell}, keys lower-cased.
table_row(headers, cells) ==
    JDict([h \in {Lower(CellText(headers[i])) : i \in 1..Len(headers)} |->
              Bind(Max({i \in 1..Len(headers) : Lower(CellText(headers[i])) = h}),
                   LAMBDA i : JStr(IF i <= Len(cells) THEN CellText(cells[i]) ELSE ""))])
_parse_markdown_table(md) ==
    Bind(SelectSeq(md, LAMBDA ln : Flatten(ln) # <<>>), LAMBDA lines :
        IF Len(lines) < 2 THEN <<>>
        ELSE [n \in 1..(Len(lines) - 2) |-> table_row(lines[1], lines[n + 2])])

\* _openai_generate, given how the model call went: client (the SDK client
\* exists) and text (what the call returned, <<>> for nothing or a failed
\* call).  [raised: an exception left the function, recipes, stages: the
\* parsing strategies run].
_openai_generate(call) ==
    IF ~call.client THEN [raised |-> FALSE, recipes |-> <<>>, stages |-> <<>>]
    ELSE
    Bind(_extract_json_block(call.text), LAMBDA blk :
    Bind(IF blk.v.t = "dict" /\ Truthy(JGet(blk.v, "recipes"))
            /\ JGet(blk.v, "recipes").t = "list"
         THEN ai_records(JGet(blk.v, "recipes").items, 0)
         ELSE [ok |-> TRUE, recipes |-> <<>>], LAMBDA js :
        IF ~js.ok THEN [raised |-> TRUE, recipes |-> <<>>, stages |-> blk.stages]
        ELSE IF js.recipes = <<>> /\ Tokens(call.text) # <<>>
        THEN Bind(ai_records(_parse_markdown_table(call.text), 0), LAMBDA tb :
                [raised |-> ~tb.ok, recipes |-> tb.recipes,
                 stages |-> blk.stages \o <<"table">>])
        ELSE [raised |-> FALSE, recipes |-> js.recipes, stages |-> blk.stages]))

\* ------------------------------------------- the Spoonacular searches

\* int(v): [ok, n].  int(None) is a TypeError, int("abc") a ValueError.
int_of(v) ==
    CASE v.t = "int" -> [ok |-> TRUE, n |-> v.n]
      [] v.t = "str" /\ v.s = "12" -> [ok |-> TRUE, n |-> 12]
      [] OTHER -> [ok |-> FALSE, n |-> 0]

\* v or default, for a title.
TitleOr(v, default) == IF Truthy(v) THEN v ELSE JStr(default)

\* The loop of _spoonacular_search over results, from index ix on: [ok,
\* out]; it.get on an entry that is no dict is an AttributeError.
RECURSIVE web_records(_, _)
web_records(results, ix) ==
    IF ix > Len(results) THEN [ok |-> TRUE, out |-> <<>>]
    ELSE Bind(results[ix], LAMBDA it :
         IF it.t # "dict" \/ ~int_of(JGet(it, "id")).ok
         THEN [ok |-> FALSE, out |-> <<>>]
         ELSE Bind(web_records(results, ix + 1), LAMBDA rest :
                [ok  |-> rest.ok,
                 out |-> <<[id |-> IntId(int_of(JGet(it, "id")).n),
                            title |-> TitleOr(JGet(it, "title"), "Untitled"),
                            source |-> "web"]>> \o rest.out]))

\* _spoonacular_search, given the call: key (the API key is set), status
\* (0: the request failed, else the HTTP status), results (the "results" of
\* the JSON body).  Every exception inside is caught and gives [].
_spoonacular_search(call) ==
    IF ~call.key THEN <<>>
    ELSE IF call.status # 200 THEN <<>>
    ELSE Bind(web_records(call.results, 1), LAMBDA w : IF w.ok THEN w.out ELSE <<>>)

\* The loop of spoon_search over r["nutrition"]["nutrients"], from index ix
\* on, with acc the values so far: [raised, protein_g, calories].  An amount
\* is an int in the model; one that float() refuses leaves the value as it
\* is.  n.get on an entry that is no dict is an AttributeError.
RECURSIVE spoon_nutrients(_, _, _)
spoon_nutrients(nutrients, ix, acc) ==
    IF ix > Len(nutrients) THEN acc
    ELSE Bind(nutrients[ix], LAMBDA n :
         IF n.t # "dict" THEN [acc EXCEPT !.raised = TRUE]
         ELSE Bind(JGet(n, "name"), LAMBDA nm :
              Bind(JGet(n, "amount"), LAMBDA am :
              Bind(IF am.t = "int" THEN <<am.n>>
                   ELSE IF ~Truthy(am) THEN <<0>> ELSE <<>>, LAMBDA amount :
              Bind(IF nm.t = "str" THEN Lower(nm.s) ELSE "", LAMBDA name :
                   spoon_nutrients(nutrients, ix + 1,
                       IF Truthy(nm) /\ nm.t # "str" THEN [acc EXCEPT !.raised = TRUE]
                       ELSE IF name = "protein" /\ amount # <<>>
                       THEN [acc EXCEPT !.protein_g = amount[1]]
                       ELSE IF name = "calories" /\ amount # <<>>
                       THEN [acc EXCEPT !.calories = amount[1]]
                       ELSE acc))))))

\* (r.get("nutrition") or {}).get("nutrients", []), then the loop when it is
\* a list.
spoon_nutrition(r) ==
    Bind(JGet(r, "nutrition"), LAMBDA nu :
    Bind([raised |-> FALSE, protein_g |-> 0, calories |-> 0], LAMBDA zero :
        IF ~Truthy(nu) THEN zero
        ELSE IF nu.t # "dict" THEN [zero EXCEPT !.raised = TRUE]
        ELSE IF "nutrients" \in DOMAIN nu.f /\ nu.f["nutrients"].t = "list"
        THEN spoon_nutrients(nu.f["nutrients"].items, 1, zero)
        ELSE zero))

\* The loop of spoon_search (services/recipes.py) over results, which runs
\* outside the try: [raised, results].  A record without id is skipped.
RECURSIVE spoon_records(_, _)
spoon_records(results, ix) ==
    IF ix > Len(results) THEN [raised |-> FALSE, results |-> <<>>]
    ELSE Bind(results[ix], LAMBDA r :
         IF r.t # "dict" THEN [raised |-> TRUE, results |-> <<>>]
         ELSE Bind(spoon_records(results, ix + 1), LAMBDA rest :
              Bind(spoon_nutrition(r), LAMBDA nut :
                IF rest.raised THEN rest
                ELSE IF ~Truthy(JGet(r, "id")) THEN rest
                ELSE IF nut.raised THEN [raised |-> TRUE, results |-> <<>>]
                ELSE [raised  |-> FALSE,
                      results |-> <<[id |-> JGet(r, "id"),
                                     title |-> IF "title" \in DOMAIN r.f
                                               THEN JGet(r, "title") ELSE JStr("Recipe"),
                                     image |-> JGet(r, "image"),
                                     calories |-> nut.calories,
                                     protein_g |-> nut.protein_g]>>
                                  \o rest.results])))

\* spoon_search, given the call.
spoon_search(call) ==
    IF ~call.key THEN [raised |-> FALSE, results |-> <<>>]
    ELSE IF call.status # 200 THEN [raised |-> FALSE, results |-> <<>>]
    ELSE spoon_records(call.results, 1)

\* ----------------------------------------------------------- is_match

\* s.strip().lower()
norm(s) == Bind(StripOf(s, Whitespace), LAMBDA t : [i \in 1..Len(t) |-> LowerChar(t[i])])

\* \w, and \b between t[i] and t[i + 1] (i from 0 to Len(t)).
LowerSet == {LowerLetters[i] : i \in 1..Len(LowerLetters)}
IsWord(c) == c \in UpperSet \/ c \in LowerSet \/ IsDigit(c) \/ c = "_"
WordAt(t, i) == i >= 1 /\ i <= Len(t) /\ IsWord(t[i])
Boundary(t, i) == WordAt(t, i) # WordAt(t, i + 1)

\* A pattern \b...\b is the sequence of its pieces: lit (a literal text),
\* ws (\s+ for min 1, \s* for min 0), opt (an optional character).
Lit(w) == [k |-> "lit", s |-> w, min |-> 0]
Ws(min) == [k |-> "ws", s |-> <<>>, min |-> min]
Opt(c) == [k |-> "opt", s |-> <<c>>, min |-> 0]

\* The offsets at which pieces k.. of a pattern can end when they start
\* after offset i of t.
RECURSIVE PieceEnds(_, _, _, _)
PieceEnds(pat, k, t, i) ==
    IF k > Len(pat) THEN {i}
    ELSE Bind(pat[k], LAMBDA pc :
         CASE pc.k = "lit" ->
                IF i + Len(pc.s) <= Len(t) /\ Sub(t, i + 1, i + Len(pc.s)) = pc.s
                THEN PieceEnds(pat, k + 1, t, i + Len(pc.s)) ELSE {}
           [] pc.k = "ws" ->
                UNION {PieceEnds(pat, k + 1, t, j) :
                         j \in {j \in (i + pc.min)..Len(t) :
                                  \A m \in (i + 1)..j : IsSpace(t[m])}}
           [] OTHER ->
                PieceEnds(pat, k + 1, t, i)
                \cup (IF i < Len(t) /\ <<t[i + 1]>> = pc.s
                      THEN PieceEnds(pat, k + 1, t, i + 1) ELSE {}))

\* The ends of the matches of \b pat \b that start after offset i.
MatchEnds(pat, t, i) ==
    IF Boundary(t, i) THEN {j \in PieceEnds(pat, 1, t, i) : Boundary(t, j)} ELSE {}

\* re.search(pat, t) finds a match.
re_search(pat, t) == \E i \in 0..Len(t) : MatchEnds(pat, t, i) # {}

\* re.sub(pat, repl, t), from offset i on (no pattern here matches the
\* empty text, and none has two matches from one offset).
RECURSIVE re_sub(_, _, _, _)
re_sub(pat, repl, t, i) ==
    IF i >= Len(t) THEN <<>>
    ELSE Bind(MatchEnds(pat, t, i), LAMBDA ends :
            IF ends # {} THEN repl \o re_sub(pat, repl, t, Max(ends))
            ELSE <<t[i + 1]>> \o re_sub(pat, repl, t, i + 1))

W_beef      == <<"b", "e", "e", "f">>
W_ground    == <<"g", "r", "o", "u", "n", "d">>
W_sirloin   == <<"s", "i", "r", "l", "o", "i", "n">>
W_steak     == <<"s", "t", "e", "a", "k">>
W_top       == <<"t", "o", "p">>
W_round     == <<"r", "o", "u", "n", "d">>
W_chuck     == <<"c", "h", "u", "c", "k">>
W_corn      == <<"c", "o", "r", "n">>
W_sweet     == <<"s", "w", "e", "e", "t">>
W_on        == <<"o", "n">>
W_the       == <<"t", "h", "e">>
W_cob       == <<"c", "o", "b">>
W_kernel    == <<"k", "e", "r", "n", "e", "l">>
W_bell      == <<"b", "e", "l", "l">>
W_pepper    == <<"p", "e", "p", "p", "e", "r">>
W_peper     == <<"p", "e", "p", "e", "r">>
W_red       == <<"r", "e", "d">>
W_green     == <<"g", "r", "e", "e", "n">>
W_yellow    == <<"y", "e", "l", "l", "o", "w">>
W_capsicum  == <<"c", "a", "p", "s", "i", "c", "u", "m">>
W_scallion  == <<"s", "c", "a", "l", "l", "i", "o", "n">>
W_onion     == <<"o", "n", "i", "o", "n">>

Spaced(a, b) == a \o <<" ">> \o b

\* SYNONYMS.get(p, [])
SYNONYMS(p) ==
    CASE p = W_beef ->
           {<<Lit(W_beef)>>, <<Lit(W_ground), Ws(1), Lit(W_beef)>>, <<Lit(W_sirloin)>>,
            <<Lit(W_steak)>>, <<Lit(W_top), Ws(1), Lit(W_round)>>, <<Lit(W_chuck)>>}
      [] p = W_corn ->
           {<<Lit(W_corn)>>, <<Lit(W_sweet), Ws(1), Lit(W_corn)>>,
            <<Lit(W_corn), Ws(1), Lit(W_on), Ws(1), Lit(W_the), Ws(1), Lit(W_cob)>>,
            <<Lit(W_corn), Ws(1), Lit(W_kernel), Opt("s")>>}
      [] p = Spaced(W_bell, W_pepper) ->
           {<<Lit(W_bell), Ws(1), Lit(W_pepper), Opt("s")>>,
            <<Lit(W_red), Ws(1), Lit(W_pepper), Opt("s")>>,
            <<Lit(W_green), Ws(1), Lit(W_pepper), Opt("s")>>,
            <<Lit(W_yellow), Ws(1), Lit(W_pepper), Opt("s")>>,
            <<Lit(W_capsicum)>>}
      [] OTHER -> {}

\* is_match with the word search of the pantry item in the candidate only.
is_match_one_way(pantry_item, candidate) ==
    Bind(norm(pantry_item), LAMBDA p :
    Bind(norm(candidate), LAMBDA c :
        IF p = <<>> \/ c = <<>> THEN FALSE
        ELSE \/ p = c
             \/ re_search(<<Lit(p)>>, c)
             \/ \E pat \in SYNONYMS(p) : re_search(pat, c)))

\* is_match(pantry_item, candidate), on texts.
is_match(pantry_item, candidate) ==
    Bind(norm(pantry_item), LAMBDA p :
    Bind(norm(candidate), LAMBDA c :
        IF p = <<>> \/ c = <<>> THEN FALSE
        ELSE \/ p = c
             \/ re_search(<<Lit(p)>>, c)
             \/ re_search(<<Lit(c)>>, p)
             \/ \E pat \in SYNONYMS(p) : re_search(pat, c)))

\* _normalize_ingredient(name): the three fixes, in the order of the dict.
_normalize_ingredient(name) ==
    Bind(re_sub(<<Lit(W_bell), Ws(0), Lit(W_peper)>>, Spaced(W_bell, W_pepper),
                norm(name), 0), LAMBDA n1 :
    Bind(re_sub(<<Lit(W_sweet), Ws(0), Lit(W_corn)>>, W_corn, n1, 0), LAMBDA n2 :
        re_sub(<<Lit(W_scallion), Opt("s")>>, Spaced(W_green, W_onion), n2, 0)))

\* ---------------------------------------------------------- web_recipes

SPOON_MIN_MATCHED_API == 1
SPOON_MIN_CONFIRMED == 1
DRINK_TYPES == {"drink", "beverage", "beverages", "cocktail", "smoothie"}

\* sorted(S) for a set of texts.
RECURSIVE sorted_texts(_)
sorted_texts(S) ==
    IF S = {} THEN <<>>
    ELSE Bind(CHOOSE x \in S : \A y \in S \ {x} : StrLess(x, y), LAMBDA m :
            <<m>> \o sorted_texts(S \ {m}))

\* The pantry of web_recipes: the user's ingredient names, normalised.
web_pantry(d, user) ==
    {_normalize_ingredient(Spell(r.name)) : r \in {x \in d.ingredients : x.user = user}}

\* The body of the loop over `found` for one item: <<>> when the loop
\* continues without appending, else the record appended.
web_result(pantry, kind, item) ==
    Bind(item.dishTypes \cap DRINK_TYPES # {}, LAMBDA is_drink :
    IF (kind = "food" /\ is_drink) \/ (kind = "drink" /\ ~is_drink) THEN <<>>
    ELSE
    Bind({norm(Spell(item.usedIngredients[i])) : i \in 1..Len(item.usedIngredients)},
         LAMBDA used_api :
    Bind({norm(Spell(item.missedIngredients[i])) : i \in 1..Len(item.missedIngredients)},
         LAMBDA missed_api :
    Bind(sorted_texts({p \in pantry : \E cand \in used_api : is_match(p, cand)}),
         LAMBDA used_confirmed :
    Bind(sorted_texts({m \in missed_api : ~\E p \in pantry : is_match(p, m)}),
         LAMBDA missed_clean :
        IF Len(used_confirmed) < SPOON_MIN_CONFIRMED THEN <<>>
        ELSE <<[id |-> item.id, title |-> item.title,
                usedIngredientCount |-> Len(used_confirmed),
                missedIngredientCount |-> Len(missed_clean),
                usedIngredients |-> used_confirmed,
                missedIngredients |-> missed_clean]>>)))))

RECURSIVE web_results(_, _, _, _)
web_results(pantry, kind, found, ix) ==
    IF ix > Len(found) THEN <<>>
    ELSE web_result(pantry, kind, found[ix]) \o web_results(pantry, kind, found, ix + 1)

\* request.session["web_recipes"] = results
store_web_recipes(sess, results) == [web_recipes |-> results] @@ sess

\* web_recipes(request), given how Spoonacular answers: key (the API key is
\* set), find_status and info_status (0: the request raised, else the HTTP
\* status of findByIngredients and informationBulk) and found (the items of
\* findByIngredients, each with what informationBulk says of it).
web_recipes(d, sess, user, kind, up) ==
    Bind(web_pantry(d, user), LAMBDA pantry :
    LET back(msg) == [session |-> sess, status |-> "redirect", message |-> msg,
                      results |-> <<>>]
    IN  IF pantry = {} THEN back("Your pantry is empty.")
        ELSE IF ~up.key THEN back("Spoonacular API key not set.")
        ELSE IF up.find_status = 0 THEN back("Network error calling Spoonacular")
        ELSE IF up.find_status = 402 THEN back("Spoonacular daily points limit reached.")
        ELSE IF up.find_status = 429 THEN back("Spoonacular rate limit reached.")
        ELSE IF up.find_status # 200 THEN back("Recipe search failed")
        ELSE
        Bind(SelectSeq(up.found,
                       LAMBDA r : r.usedIngredientCount >= SPOON_MIN_MATCHED_API),
             LAMBDA found :
        IF found = <<>> THEN back("No good matches")
        ELSE IF up.info_status = 0 THEN back("Network error calling Spoonacular")
        ELSE IF up.info_status = 429 THEN back("Spoonacular rate limit reached.")
        ELSE IF up.info_status # 200 THEN back("Recipe details failed")
        ELSE Bind(web_results(pantry, kind, found, 1), LAMBDA results :
                IF results = <<>> THEN back("No good matches")
                ELSE [session |-> store_web_recipes(sess, results), status |-> "page",
                      message |-> "", results |-> results])))

\* ------------------------------------- the handlers that call providers

\* A record of _spoonacular_search or _openai_generate as the session keeps
\* it, with the fields the views of the model read (the provider's image
\* and payload are left out).
stored_web(r) ==
    [id |-> r.id, source |-> "web", title |-> r.title.s, image |-> "",
     ingredients |-> <<>>, steps |-> <<>>]
stored_ai(r) ==
    [id |-> r.id, source |-> "ai", title |-> r.title, image |-> "",
     ingredients |-> <<>>, steps |-> <<>>]

\* recipes_search(request), given how the two providers answer.  An
\* exception of _openai_generate leaves the view, and so does the
\* x["title"].lower() of the sort for a web title that is no str.
recipes_search_request(sess, webcall, aicall) ==
    Bind(_spoonacular_search(webcall), LAMBDA web_items :
    Bind(_openai_generate(aicall), LAMBDA ai :
        IF ai.raised THEN [session |-> sess, status |-> "500"]
        ELSE IF (web_items # <<>> \/ ai.recipes # <<>>)
                /\ \E i \in 1..Len(web_items) : web_items[i].title.t # "str"
        THEN [session |-> sess, status |-> "500"]
        ELSE Bind(recipes_search(sess,
                                 [i \in 1..Len(ai.recipes) |-> stored_ai(ai.recipes[i])],
                                 [i \in 1..Len(web_items) |-> stored_web(web_items[i])]),
                  LAMBDA r : [session |-> r.session @@ sess, status |-> r.status])))

\* _fallback_image_from_spoonacular(title): "" is None.
_fallback_image_from_spoonacular(title, up) ==
    IF ~up.key \/ title = "" THEN ""
    ELSE IF up.raises THEN ""
    ELSE IF up.status # 200 THEN ""
    ELSE up.image

\* f"Recipe {idx}"
RecipeTitle(idx) ==
    CASE idx = 1 -> "Recipe 1"
      [] idx = 2 -> "Recipe 2"
      [] idx = 3 -> "Recipe 3"
      [] OTHER   -> "Recipe 4"

\* request.session["ai_recipes"] = recipes
store_ai_recipes(sess, recipes) == [ai_recipes |-> recipes] @@ sess

\* ai_recipes(request), POST, given how OpenAI answers: key (the API key is
\* set), status (0: the request raised, else the HTTP status), body (what
\* the 200 answer holds: "recipes", "not_json", "no_choices" for a body
\* without the key, "empty_choices" for an empty list of choices), titles
\* (the titles of data["recipes"], "" for none), gen_url (what
\* _gen_image_url gives when ENABLE_AI_IMAGES is on, else "") and image (the
\* answer to the Spoonacular image lookup).
ai_recipes(d, sess, user, up) ==
    LET back(msg) == [session |-> sess, status |-> "redirect", message |-> msg,
                      recipes |-> <<>>]
    IN  IF {r \in d.ingredients : r.user = user} = {}
        THEN back("Your pantry is empty. Add some ingredients first.")
        ELSE IF ~up.key THEN back("OpenAI API key not configured.")
        ELSE IF up.status = 0 THEN back("Network error calling AI")
        ELSE IF up.status # 200 THEN back("AI request failed")
        ELSE IF up.body \in {"not_json", "no_choices"}
        THEN back("Failed to parse AI response")
        ELSE IF up.body = "empty_choices"
        THEN [session |-> sess, status |-> "500", message |-> "", recipes |-> <<>>]
        ELSE
        Bind([idx \in 1..Min2(Len(up.titles), 4) |->
                 Bind(IF up.titles[idx] = "" THEN RecipeTitle(idx) ELSE up.titles[idx],
                      LAMBDA title :
                     [id |-> idx, title |-> title,
                      image_url |-> IF up.gen_url # "" THEN up.gen_url
                                    ELSE _fallback_image_from_spoonacular(title, up.image)])],
             LAMBDA recipes :
            [session |-> store_ai_recipes(sess, recipes), status |-> "page",
             message |-> "", recipes |-> recipes])

\* The loop of suggest_recipes_for_gaps (views.py) over what spoon_search
\* gave, from index ix on: [raised, items].  A record whose id is no int is
\* skipped; for one without image the view calls spoonacular_image_for with
\* two arguments, which takes one: TypeError.  _extract_protein_and_calories
\* reads the keys nutrition, protein and calories, of which a record of
\* spoon_search has the last only, so protein_g is 0.  The titles of the
\* model's answers are str or absent.
RECURSIVE suggestion_items(_, _)
suggestion_items(raw, ix) ==
    IF ix > Len(raw) THEN [raised |-> FALSE, items |-> <<>>]
    ELSE Bind(raw[ix], LAMBDA r :
         Bind(suggestion_items(raw, ix + 1), LAMBDA rest :
            IF r.id.t # "int" THEN rest
            ELSE IF ~Truthy(r.image) THEN [raised |-> TRUE, items |-> <<>>]
            ELSE IF rest.raised THEN rest
            ELSE [raised |-> FALSE,
                  items  |-> <<[id |-> IntId(r.id.n),
                                title |-> IF Truthy(r.title) THEN r.title.s ELSE "Recipe",
                                image |-> r.image.s, protein_g |-> 0,
                                calories |-> r.calories, source |-> "web"]>>
                             \o rest.items]))

\* suggest_recipes_for_gaps(target, totals, search_fn=spoon_search), the
\* definition of views.py (which replaces the imported one): [raised,
\* items].  search_fn has no parameter add_recipe_nutrition, so the first
\* call is a TypeError and the second, search_fn(query, 24), is the search.
suggest_recipes_for_gaps(target, totals, call) ==
    Bind(Max2(OrZero(target.protein_g) - totals.protein_g, 0), LAMBDA protein_gap :
    Bind(Max2(OrZero(target.calories) - totals.calories, 0), LAMBDA calorie_gap :
    Bind(spoon_search(call), LAMBDA raw :
        IF raw.raised THEN [raised |-> TRUE, items |-> <<>>]
        ELSE Bind(suggestion_items(raw.results, 1), LAMBDA got :
             IF got.raised THEN got
             ELSE Bind([i \in 1..Len(got.items) |->
                          IF protein_gap >= 20 THEN got.items[i].calories
                          ELSE Max2(calorie_gap - got.items[i].calories,
                                    got.items[i].calories - calorie_gap)],
                       LAMBDA key :
                    [raised |-> FALSE,
                     items |-> Take(sort_by_key(got.items, key), 4)])))))

\* NutritionTarget.objects.get_or_create(user=request.user): the table with
\* the user's row in it, created with the defaults of the model's fields.
target_get_or_create(tbl, user) ==
    IF \E t \in tbl : t.user = user THEN tbl
    ELSE tbl \cup {[id |-> NewId(tbl), user |-> user, calories |-> <<2000>>,
                    protein_g |-> <<>>, carbs_g |-> <<>>, fat_g |-> <<>>]}

\* nutrition_target_upsert(request), for a database that has the table of
\* targets: post is <<>> for a GET and else the valid form posted; call is
\* how Spoonacular answers the search of the suggestions.
nutrition_target_upsert(d, now, sess, user, post, call) ==
    Bind([d EXCEPT !.nutritionTargets = target_get_or_create(@, user)], LAMBDA d1 :
    Bind(CHOOSE t \in d1.nutritionTargets : t.user = user, LAMBDA target :
        IF post # <<>>
        THEN [db |-> [d1 EXCEPT !.nutritionTargets =
                         (@ \ {target})
                         \cup {[target EXCEPT !.calories = post[1].calories,
                                              !.protein_g = post[1].protein_g,
                                              !.carbs_g = post[1].carbs_g,
                                              !.fat_g = post[1].fat_g]}],
              session |-> sess, status |-> "redirect", suggestions |-> <<>>]
        ELSE
        Bind(sync_logged_meals_from_plan(d1, now, user, now), LAMBDA d2 :
        Bind(CHOOSE t \in compute_daily_totals(d2, user, now, target) : TRUE,
             LAMBDA totals :
        Bind(suggest_recipes_for_gaps(target, totals, call), LAMBDA sg :
        Bind(IF sg.raised THEN <<>> ELSE sg.items, LAMBDA suggestions :
            [db |-> d2, session |-> [sess EXCEPT !.web = suggestions],
             status |-> "page", suggestions |-> suggestions]))))))

\* ------------------------------------------------------ the sample photos

L_bell    == <<"2", " ", "b", "e", "l", "l", " ", "p", "e", "p", "p", "e", "r">>
L_chicken == <<"2", "0", "0", " ", "g", " ", "c", "h", "i", "c", "k", "e", "n", " ", "b", "r", "e", "a", "s", "t">>
L_onion   == <<"o", "n", "i", "o", "n", " ", "1", " ", "p", "c">>
L_ginger  == <<"g", "i", "n", "g", "e", "r">>
L_cups    == <<"2", " ", "c", "u", "p", "s", " ", "s", "u", "g", "a", "r">>
L_garlic  == <<"g", "a", "r", "l", "i", "c", " ", "2", " ", "p", "c", "s">>
L_eggs    == <<"-", " ", "3", " ", "e", "g", "g", "s">>
L_blank   == <<" ", " ">>
L_x       == <<"x">>

\* n copies of x.
Rep(x, n) == [i \in 1..n |-> x]

\* What _ocr_extract_text reads off a photo (<<>>: nothing, or OCR failed).
OcrTexts ==
    {<<>>, <<L_blank>>, <<L_bell, L_chicken>>, <<L_onion, L_blank, L_ginger>>,
     <<L_cups>>, <<L_garlic>>, <<L_eggs>>, Rep(L_x, OcrCap + 1)}

VItem(name) == [name |-> name, quantity |-> <<" ", "1">>, unit |-> <<>>]
VRice == [name |-> <<"r", "i", "c", "e">>, quantity |-> <<>>, unit |-> <<>>]

\* What a vision call answers: ok is FALSE for a missing API key, a non-200
\* status, an unreadable image or an answer that is not the JSON asked for.
VisionAnswers ==
    {[ok |-> FALSE, items |-> <<>>],
     [ok |-> TRUE, items |-> <<>>],
     [ok |-> TRUE, items |-> <<VItem(<<" ", "r", "i", "c", "e">>), VItem(<<" ">>)>>],
     [ok |-> TRUE, items |-> Rep(VRice, VisionCap + 1)]}

\* ------------------------------------------------------------------ state

EmptyDb ==
    [ingredients |-> {}, savedRecipes |-> {}, mealPlans |-> {}, meals |-> {},
     loggedMeals |-> {}, uploads |-> {}]

NoTxn == <<>>
NoResp == [op |-> "none", user |-> "", status |-> "", args |-> <<>>, out |-> <<>>]
NoSession == [u \in Users |-> NoBundle]

TotalRows(d) ==
    Cardinality(d.ingredients) + Cardinality(d.savedRecipes)
    + Cardinality(d.mealPlans) + Cardinality(d.meals)
    + Cardinality(d.loggedMeals) + Cardinality(d.uploads)

\* The states the model explores: few rows, small primary keys.
Cap(f) ==
    IF f = "ingredients" THEN MaxIngredients
    ELSE IF f = "loggedMeals" THEN MaxLogged ELSE MaxRows
Bounded(d) ==
    \A f \in DOMAIN d :
        /\ Cardinality(d[f]) <= Cap(f)
        /\ \A r \in d[f] : r.id <= Cap(f)
Small == TotalRows(db) <= MaxTotal

Ids == 1..MaxRows

\* A request of `user` handled: r is what the handler gave, [db, status, ...].
\* resp keeps the request's inputs and outputs when log is TRUE, else only
\* which handler ran and the status it gave.
Handled(log, op, user, args, r, out) ==
    \E v \in {r} :
        /\ Bounded(v.db)
        /\ db' = v.db
        /\ resp' = IF log
                   THEN [op |-> op, user |-> user, status |-> v.status, args |-> args,
                         out |-> out]
                   ELSE [op |-> op, user |-> "", status |-> v.status, args |-> <<>>,
                         out |-> <<>>]

\* ------------------------------------------------------- the requests

\* recipes_search: the AI and web answers are stored in the user's session.
RecipesSearchOf(log, users, answers) ==
    \E user \in users, ans \in answers :
        /\ \E r \in {recipes_search(session[user], ans[1], ans[2])} :
              /\ session' = [session EXCEPT ![user] = r.session]
              /\ resp' = [op |-> "recipes_search", user |-> IF log THEN user ELSE "",
                          status |-> r.status, args |-> <<>>, out |-> <<>>]
        /\ UNCHANGED <<db, today, txn>>

SaveFavoriteOf(log, users, sources, ids) ==
    \E user \in users, source \in sources, recipe_id \in ids :
        /\ Handled(log, "save_favorite", user, [source |-> source, recipe_id |-> recipe_id],
                   save_favorite(db, session[user], user, source, recipe_id), <<>>)
        /\ UNCHANGED <<session, today, txn>>

FavoriteDeleteOf(log, users, pks) ==
    \E user \in users, pk \in pks :
        /\ Handled(log, "favorite_delete", user, [pk |-> pk], favorite_delete(db, user, pk), <<>>)
        /\ UNCHANGED <<session, today, txn>>

RecipeCreateOf(log, users, sources, exts, titles) ==
    \E user \in users, source \in sources, ext \in exts, title \in titles :
        /\ Handled(log, "recipe_create", user,
                   [source |-> source, external_id |-> ext, title |-> title],
                   recipe_create(db, user, source, ext, title), <<>>)
        /\ UNCHANGED <<session, today, txn>>

RecipeUpdateOf(log, users, pks, sources, exts, titles) ==
    \E user \in users, pk \in pks, source \in sources, ext \in exts, title \in titles :
        /\ Handled(log, "recipe_update", user,
                   [pk |-> pk, source |-> source, external_id |-> ext, title |-> title],
                   recipe_update(db, user, pk, source, ext, title), <<>>)
        /\ UNCHANGED <<session, today, txn>>

RecipeDeleteOf(log, users, pks) ==
    \E user \in users, pk \in pks :
        /\ Handled(log, "recipe_delete", user, [pk |-> pk], recipe_delete(db, user, pk), <<>>)
        /\ UNCHANGED <<session, today, txn>>

AddIngredientOf(log, users, names, quantities, units) ==
    \E user \in users, name \in names, quantity \in quantities, unit \in units :
        /\ Handled(log, "add_ingredient", user,
                   [name |-> name, quantity |-> quantity, unit |-> unit],
                   add_ingredient(db, user, name, quantity, unit), <<>>)
        /\ UNCHANGED <<session, today, txn>>

DeleteIngredientOf(log, users, pks) ==
    \E user \in users, pk \in pks :
        /\ Handled(log, "delete_ingredient", user, [pk |-> pk],
                   delete_ingredient(db, user, pk), <<>>)
        /\ UNCHANGED <<session, today, txn>>

\* pantry_extract_start: a posted file and/or storage key; text is what OCR
\* reads off the photo, inline and url what the vision calls answer.
PantryExtractStartOf(log, users, files, keys, texts, inlines, urls) ==
    \E user \in users, uploaded \in files, s3_key \in keys, text \in texts,
       inline \in inlines, url \in urls :
        \E r \in {pantry_extract_start(db, user, uploaded, s3_key, text, inline, url)} :
            /\ Handled(log, "pantry_extract_start", user,
                       [uploaded |-> uploaded, s3_key |-> s3_key, text |-> text,
                        inline |-> inline, url |-> url, has_url |-> TRUE], r,
                       [stages |-> r.stages, upload |-> r.upload,
                        candidates |-> IF r.upload = 0 THEN <<>>
                                       ELSE (CHOOSE up \in r.db.uploads :
                                                 up.id = r.upload).candidates])
            /\ UNCHANGED <<session, today, txn>>

PantryReviewOf(log, users, upload_ids, valids, rowss) ==
    \E user \in users, upload_id \in upload_ids, valid \in valids, rows \in rowss :
        \E r \in {pantry_extract_review(db, user, upload_id, valid, rows)} :
            /\ Handled(log, "pantry_extract_review", user,
                       [upload_id |-> upload_id, valid |-> valid, rows |-> rows], r,
                       [added |-> r.added, updated |-> r.updated, errors |-> r.errors])
            /\ UNCHANGED <<session, today, txn>>

MealPlanViewOf(log, users, weeks) ==
    \E user \in users, week \in weeks :
        /\ Handled(log, "meal_plan_view", user, [week |-> week],
                   meal_plan_view(db, today, user, week), <<>>)
        /\ UNCHANGED <<session, today, txn>>

MealAddOf(log, users, recipe_ids, dates, meal_types) ==
    \E user \in users, recipe_id \in recipe_ids, date \in dates, meal_type \in meal_types :
        /\ Handled(log, "meal_add", user,
                   [recipe_id |-> recipe_id, date |-> date, meal_type |-> meal_type],
                   meal_add(db, user, recipe_id, date, meal_type), <<>>)
        /\ UNCHANGED <<session, today, txn>>

MealDeleteOf(log, users, meal_ids) ==
    \E user \in users, meal_id \in meal_ids :
        /\ Handled(log, "meal_delete", user, [meal_id |-> meal_id],
                   meal_delete(db, user, meal_id), <<>>)
        /\ UNCHANGED <<session, today, txn>>

\* macros: <<calories, protein, carbs, fat>> per serving; halves: the
\* quantity in half servings.
LogCustomMealOf(log, users, meal_types, macros, halvess) ==
    \E user \in users, meal_type \in meal_types, m \in macros, halves \in halvess :
        /\ Handled(log, "log_custom_meal", user,
                   [meal_type |-> meal_type, macros |-> m, halves |-> halves],
                   log_custom_meal(db, today, user, meal_type, m[1], m[2], m[3], m[4],
                                   halves), <<>>)
        /\ UNCHANGED <<session, today, txn>>

DeleteMealOf(log, users, meal_ids) ==
    \E user \in users, meal_id \in meal_ids :
        /\ Handled(log, "delete_meal", user, [meal_id |-> meal_id],
                   delete_meal(db, user, meal_id), <<>>)
        /\ UNCHANGED <<session, today, txn>>

\* Midnight passes on the server.
Tick ==
    /\ today < MaxDay
    /\ today' = today + 1
    /\ resp' = NoResp
    /\ UNCHANGED <<db, session, txn>>

\* ---------------------------------------------------------------- Spec
\* The whole application, every handler that writes a table, on few inputs.

AiSmoothie ==
    [id |-> StrId("berry-smoothie"), source |-> "ai", title |-> "Berry Smoothie",
     image |-> "",
     ingredients |-> <<[dict |-> FALSE, text |-> " egg"], [dict |-> FALSE, text |-> "   "]>>,
     steps |-> <<>>]
WebBare ==
    [id |-> IntId(101), source |-> "web", title |-> "Pasta", image |-> "",
     ingredients |-> <<>>, steps |-> <<>>]
WebLong ==
    [id |-> IntId(101), source |-> "web", title |-> "L201", image |-> "img",
     ingredients |-> <<[dict |-> TRUE, text |-> "milk"], [dict |-> TRUE, text |-> ""]>>,
     steps |-> <<"Mix.", "   ">>]

Row(name, quantity, unit) ==
    [name |-> name, quantity |-> quantity, unit |-> unit, delete |-> FALSE]

RecipesSearch == RecipesSearchOf(FALSE, {"u1"}, {<<<<AiSmoothie>>, <<WebBare>>>>}) /\ Small'
SaveFavorite == SaveFavoriteOf(FALSE, {"u1"}, {"ai", "web"}, {"101"}) /\ Small'
FavoriteDelete == FavoriteDeleteOf(FALSE, {"u1"}, Ids) /\ Small'
RecipeCreate == RecipeCreateOf(FALSE, {"u1"}, {"web"}, {"", "101"}, {"", "Pasta"}) /\ Small'
RecipeUpdate == RecipeUpdateOf(FALSE, {"u1"}, Ids, {"web"}, {"101"}, {"Pasta"}) /\ Small'
RecipeDelete == RecipeDeleteOf(FALSE, {"u1"}, Ids) /\ Small'
AddIngredient == AddIngredientOf(FALSE, Users, {"", "milk", "Milk"}, {QNum(2)}, {"g"}) /\ Small'
DeleteIngredient == DeleteIngredientOf(FALSE, Users, Ids) /\ Small'
PantryExtractStart ==
    PantryExtractStartOf(FALSE, {"u1"}, {TRUE}, {""}, {<<>>}, {[ok |-> FALSE, items |-> <<>>]},
                         {[ok |-> TRUE, items |-> <<VItem(<<"e", "g", "g">>)>>]}) /\ Small'
PantryReview ==
    PantryReviewOf(FALSE, {"u1"}, Ids, {TRUE}, {<<Row("Milk", QBlank, "")>>,
                                 <<Row("egg", QNum(3), ""), Row("Egg", QBlank, "kg")>>})
    /\ Small'
MealPlanView == MealPlanViewOf(FALSE, Users, {-1, MaxDay - 1}) /\ Small'
MealAdd == MealAddOf(FALSE, {"u1"}, {0} \cup Ids, {MaxDay - 2, MaxDay - 1}, {"dinner"}) /\ Small'
MealDelete == MealDeleteOf(FALSE, {"u1"}, Ids) /\ Small'
LogCustomMeal == LogCustomMealOf(FALSE, {"u1"}, {"dinner"}, {<<500, 23, 0, 10>>}, {2}) /\ Small'
DeleteMeal == DeleteMealOf(FALSE, {"u1"}, Ids) /\ Small'

Init ==
    /\ db = EmptyDb
    /\ session = NoSession
    /\ today = MaxDay - 2
    /\ resp = NoResp
    /\ txn = NoTxn

Next ==
    \/ RecipesSearch
    \/ SaveFavorite
    \/ FavoriteDelete
    \/ RecipeCreate
    \/ RecipeUpdate
    \/ RecipeDelete
    \/ AddIngredient
    \/ DeleteIngredient
    \/ PantryExtractStart
    \/ PantryReview
    \/ MealPlanView
    \/ MealAdd
    \/ MealDelete
    \/ LogCustomMeal
    \/ DeleteMeal

Spec == Init /\ [][Next]_vars

\* ------------------------------------------------------------- SpecFav
\* Favorites: searches that fill the session, saves, edits and deletes.

FavSearch ==
    RecipesSearchOf(TRUE, Users, {<<<<AiSmoothie>>, <<WebBare>>>>,
                                  <<<<AiSmoothie>>, <<WebLong>>>>})
FavSave == SaveFavoriteOf(TRUE, Users, {"ai", "web", "rss"}, {"101", "berry-smoothie", "102"})
FavDelete == FavoriteDeleteOf(TRUE, {"u1"}, Ids)
FavEdit == RecipeUpdateOf(TRUE, {"u1"}, Ids, {"web"}, {"101", ""}, {"Pasta"})

NextFav ==
    \/ FavSearch
    \/ FavSave
    \/ FavDelete
    \/ FavEdit

SpecFav == Init /\ [][NextFav]_vars

\* ---------------------------------------------------------- SpecPantry
\* The pantry: ingredients typed in, photo uploads, review submissions.

ReviewRow ==
    {Row(n, q, u) : n \in {"Milk", "egg"}, q \in {QBlank, QNum(3)}, u \in {"", "kg"}}
    \cup {[Row("Milk", QNum(3), "") EXCEPT !.delete = TRUE], Row("", QNum(3), "")}
ReviewRows ==
    {<<a>> : a \in ReviewRow}
    \cup {<<a, b>> : a \in {Row("Milk", QNum(3), ""), Row("egg", QBlank, "")},
                     b \in {Row("milk", QNum(3), "kg"), Row("egg", QNum(3), "")}}

PantryAdd == AddIngredientOf(TRUE, Users, {"milk"}, {QBlank, QNum(2), QText}, {"", "g"})
PantryDelete == DeleteIngredientOf(TRUE, {"u1"}, Ids)
PantryStart ==
    PantryExtractStartOf(TRUE, {"u1"}, {TRUE}, {""}, {<<>>}, {[ok |-> FALSE, items |-> <<>>]},
                         {[ok |-> TRUE, items |-> <<VItem(<<"e", "g", "g">>)>>]})
PantrySubmit == PantryReviewOf(TRUE, {"u1"}, {1}, BOOLEAN, ReviewRows)

NextPantry ==
    \/ PantryAdd
    \/ PantryDelete
    \/ PantryStart
    \/ PantrySubmit

SpecPantry == Init /\ [][NextPantry]_vars

\* ------------------------------------------------------------ SpecRace
\* Two pantry review submissions of user u1, one row each, run concurrently
\* on names equal ignoring case.  Each row is handled in its own
\* transaction.atomic() block, whose statements are the steps: the
\* SELECT ... FOR UPDATE (which waits while the other transaction holds the
\* row's lock), then either the merge and save, or the INSERT.  A transaction
\* commits, or rolls back, at the end of its block.  txn.proc[p] is
\* submission p: pc, its row, the row it read (<<>>: none), and how its request
\* ended; txn.initial is the quantity stored when both started.

Procs == {1, 2}
RaceQuantities == {1, 2}

Locked(p) == txn.proc[p].pc = "locked"

\* The state of the view's loop that submission p carries.
RaceSt(p) ==
    [ing |-> db.ingredients, added |-> 0, updated |-> 0, errors |-> {},
     crashed |-> FALSE]

RaceDone(p, st) ==
    /\ db' = [db EXCEPT !.ingredients = st.ing]
    /\ txn' = [txn EXCEPT !.proc[p].pc = "done",
                          !.proc[p].status = IF st.crashed THEN "500" ELSE "redirect",
                          !.proc[p].saved = ~st.crashed /\ st.errors = {}]
    /\ UNCHANGED <<session, today, resp>>

\* Ingredient.objects.select_for_update().get(user=, name__iexact=)
RaceGet(p) ==
    /\ txn.proc[p].pc = "start"
    /\ \E found \in {review_get(db.ingredients, "u1", txn.proc[p].row.name)} :
          IF found = {}
          THEN txn' = [txn EXCEPT !.proc[p].pc = "missing"]
          ELSE /\ \A q \in Procs \ {p} : ~(Locked(q) /\ txn.proc[q].obj[1].id \in
                                                          {r.id : r \in found})
               /\ txn' = [txn EXCEPT !.proc[p].pc = "locked",
                                     !.proc[p].obj = <<CHOOSE r \in found : TRUE>>]
    /\ UNCHANGED <<db, session, today, resp>>

\* The merge, obj.save() and the end of the atomic block.
RaceMerge(p) ==
    /\ txn.proc[p].pc = "locked"
    /\ \E st \in {review_merge(RaceSt(p), "u1", txn.proc[p].obj[1], txn.proc[p].row)} :
          RaceDone(p, st)

\* except Ingredient.DoesNotExist: Ingredient.objects.create(...)
RaceCreate(p) ==
    /\ txn.proc[p].pc = "missing"
    /\ \E st \in {review_create(RaceSt(p), "u1", txn.proc[p].row)} : RaceDone(p, st)

InitRace ==
    /\ \E q0 \in {QNull, QBlank, QNum(2)} :
       \E n1 \in {"milk", "Milk"}, n2 \in {"milk", "Milk"} :
       \E d1 \in RaceQuantities, d2 \in RaceQuantities :
          /\ db = [EmptyDb EXCEPT !.ingredients =
                      IF q0 = QNull THEN {}
                      ELSE {[id |-> 1, user |-> "u1", name |-> "milk", quantity |-> q0,
                             unit |-> "g"]}]
          /\ txn = [initial |-> q0.n,
                    proc |-> [p \in Procs |->
                                [pc |-> "start",
                                 row |-> Row(IF p = 1 THEN n1 ELSE n2,
                                             QNum(IF p = 1 THEN d1 ELSE d2), ""),
                                 obj |-> <<>>, status |-> "", saved |-> FALSE]]]
    /\ session = NoSession
    /\ today = MaxDay - 2
    /\ resp = NoResp

NextRace ==
    \/ \E p \in Procs : RaceGet(p)
    \/ \E p \in Procs : RaceMerge(p)
    \/ \E p \in Procs : RaceCreate(p)

SpecRace == InitRace /\ [][NextRace]_vars

\* --------------------------------------------------------- SpecExtract
\* Photo uploads on sample photos and vision answers; and, before any
\* upload, the extractor and the OCR line parser called on their own.

ExtractStart ==
    /\ Cardinality(db.uploads) < MaxUploads
    /\ PantryExtractStartOf(TRUE, {"u1"}, BOOLEAN, {"", "k"}, {<<>>, <<L_bell, L_chicken>>},
                            VisionAnswers,
                            {[ok |-> FALSE, items |-> <<>>],
                             [ok |-> TRUE, items |-> Rep(VRice, VisionCap + 1)]})

ExtractCandidates ==
    /\ db.uploads = {}
    /\ \E text \in {<<>>, <<L_blank>>, <<L_bell, L_chicken>>, Rep(L_x, OcrCap + 1)},
          inline \in VisionAnswers, url \in VisionAnswers, has_url \in BOOLEAN :
          /\ resp' = [op |-> "_extract_candidates", user |-> "", status |-> "",
                      args |-> [text |-> text, inline |-> inline, url |-> url,
                                has_url |-> has_url],
                      out |-> _extract_candidates(text, inline, url, has_url)]
          /\ UNCHANGED <<db, session, today, txn>>

ParseIngredients ==
    /\ db.uploads = {}
    /\ \E text \in OcrTexts :
          /\ resp' = [op |-> "_parse_ingredients_from_text", user |-> "", status |-> "",
                      args |-> [text |-> text],
                      out |-> [candidates |-> _parse_ingredients_from_text(text)]]
          /\ UNCHANGED <<db, session, today, txn>>

NextExtract ==
    \/ ExtractStart
    \/ ExtractCandidates
    \/ ParseIngredients

SpecExtract == Init /\ [][NextExtract]_vars

\* ------------------------------------------------------------ SpecNutri
\* The food log and the nutrition service: recipes planned into the week,
\* meals logged by two users over a few days, the plan synced into the log
\* and the day's totals computed against a target.

\* A NutritionTarget: each macro a number or None.
Target(cal, pro, car, fat) ==
    [calories |-> cal, protein_g |-> pro, carbs_g |-> car, fat_g |-> fat]
Targets ==
    {Target(<<100>>, <<40>>, <<0>>, <<>>),
     Target(<<2000>>, <<23>>, <<-5>>, <<3>>)}

NutriDays == {MaxDay - 2, MaxDay - 1}

NutriRecipe == RecipeCreateOf(FALSE, {"u1"}, {"web"}, {"101"}, {"Pasta"})

NutriMealAdd == MealAddOf(FALSE, {"u1"}, {1}, NutriDays, {"dinner"})

NutriLog == LogCustomMealOf(FALSE, Users, {"dinner"}, {<<500, 23, 0, 10>>}, {2})

NutriDelete == DeleteMealOf(FALSE, {"u1"}, 1..MaxLogged)

SyncLoggedMeals ==
    \E user \in {"u1"}, day \in NutriDays :
        /\ Handled(TRUE, "sync_logged_meals_from_plan", user, [day |-> day],
                   [db |-> sync_logged_meals_from_plan(db, today, user, day),
                    status |-> "done"], <<>>)
        /\ UNCHANGED <<session, today, txn>>

ComputeDailyTotals ==
    \E user \in Users, day \in NutriDays, target \in Targets :
        \E totals \in compute_daily_totals(db, user, day, target) :
            /\ resp' = [op |-> "compute_daily_totals", user |-> user, status |-> "",
                        args |-> [day |-> day, target |-> target], out |-> totals]
            /\ UNCHANGED <<db, session, today, txn>>

NextNutri ==
    \/ NutriRecipe
    \/ NutriMealAdd
    \/ NutriLog
    \/ NutriDelete
    \/ SyncLoggedMeals
    \/ ComputeDailyTotals
    \/ Tick

SpecNutri == Init /\ [][NextNutri]_vars

\* ----------------------------------------------------------- SpecSession
\* The session's result bundle: searches of two users, with answers of the
\* two providers that are empty, single or several records, and lookups.

AiPie ==
    [id |-> StrId("101"), source |-> "ai", title |-> "apple pie", image |-> "",
     ingredients |-> <<>>, steps |-> <<>>]
AiZucchini ==
    [id |-> StrId("zucchini"), source |-> "ai", title |-> "Zucchini", image |-> "",
     ingredients |-> <<>>, steps |-> <<>>]
AiBanana ==
    [id |-> StrId("banana"), source |-> "ai", title |-> "Banana bread", image |-> "",
     ingredients |-> <<>>, steps |-> <<>>]
WebZucchini ==
    [id |-> IntId(102), source |-> "web", title |-> "Zucchini", image |-> "",
     ingredients |-> <<>>, steps |-> <<>>]
WebPie ==
    [id |-> IntId(1), source |-> "web", title |-> "apple pie", image |-> "",
     ingredients |-> <<>>, steps |-> <<>>]
WebPie2 ==
    [id |-> IntId(1), source |-> "web", title |-> "Banana bread", image |-> "",
     ingredients |-> <<>>, steps |-> <<>>]

AiAnswers == {<<>>, <<AiSmoothie>>, <<AiZucchini, AiPie, AiBanana>>}
WebAnswers == {<<>>, <<WebBare>>, <<WebZucchini, WebPie, WebPie2>>}

SessionSearch ==
    \E user \in Users, ai_items \in AiAnswers, web_items \in WebAnswers :
        \E r \in {recipes_search(session[user], ai_items, web_items)} :
            /\ session' = [session EXCEPT ![user] = r.session]
            /\ resp' = [op |-> "recipes_search", user |-> user, status |-> r.status,
                        args |-> [ai |-> ai_items, web |-> web_items], out |-> <<>>]
            /\ UNCHANGED <<db, today, txn>>

SessionLookup ==
    \E user \in Users, source \in {"ai", "web", "rss", "combined"},
       id \in {IntId(101), StrId("101"), IntId(1), StrId("zucchini"), IntId(5)} :
        /\ resp' = [op |-> "_get_session_recipe", user |-> user, status |-> "",
                    args |-> [source |-> source, id |-> id],
                    out |-> _get_session_recipe(session[user], source, str_id(id))]
        /\ UNCHANGED <<db, session, today, txn>>

NextSession ==
    \/ SessionSearch
    \/ SessionLookup

SpecSession == Init /\ [][NextSession]_vars

\* ------------------------------------------------------------ SpecDetail
\* Detail pages and saves of one user against a session that searches
\* fill, with ids the session holds and ids it does not.

ImageAnswers ==
    {ImageAnswer(TRUE, FALSE, 200, "img"), ImageAnswer(TRUE, FALSE, 200, ""),
     ImageAnswer(TRUE, TRUE, 200, ""), ImageAnswer(TRUE, FALSE, 429, ""),
     ImageAnswer(FALSE, FALSE, 200, "img")}

DetailIds == {"101", "zucchini", "5"}

DetailSearch ==
    \E ai_items \in {<<>>, <<AiZucchini, AiPie>>}, web_items \in {<<>>, <<WebBare>>} :
        \E r \in {recipes_search(session["u1"], ai_items, web_items)} :
            /\ session' = [session EXCEPT !["u1"] = r.session]
            /\ resp' = [op |-> "recipes_search", user |-> "u1", status |-> r.status,
                        args |-> [ai |-> ai_items, web |-> web_items], out |-> <<>>]
            /\ UNCHANGED <<db, today, txn>>

DetailView ==
    \E source \in {"ai", "web", "rss"}, recipe_id \in DetailIds, up \in ImageAnswers :
        \E r \in {recipe_detail(session["u1"], source, recipe_id, up)} :
            /\ session' = [session EXCEPT !["u1"] = r.session]
            /\ resp' = [op |-> "recipe_detail", user |-> "u1", status |-> r.status,
                        args |-> [source |-> source, recipe_id |-> recipe_id, up |-> up],
                        out |-> <<>>]
            /\ UNCHANGED <<db, today, txn>>

DetailSave == SaveFavoriteOf(TRUE, {"u1"}, {"ai", "web", "rss"}, DetailIds)

NextDetail ==
    \/ DetailSearch
    \/ DetailView
    \/ DetailSave

SpecDetail == Init /\ [][NextDetail]_vars

\* --------------------------------------------------------------- SpecWeb
\* The pantry-driven web search: one user's pantry of up to MaxIngredients
\* names, and answers of findByIngredients with one or two items.

PantryNames == {"bell pepper", "chicken breast", "scallions", "beef", "bell peper"}

FoundItem(id, title, n, used, missed, types) ==
    [id |-> id, title |-> title, usedIngredientCount |-> n, usedIngredients |-> used,
     missedIngredients |-> missed, dishTypes |-> types]
FoundPeppers ==
    FoundItem(101, "Pasta", 2, <<"bell peppers", "chicken breast fillet">>, <<"salt">>,
              {"lunch"})
FoundSteak ==
    FoundItem(102, "Zucchini", 2, <<"scallions", "Sirloin Steak">>,
              <<"chicken breast", "red peppers">>, {"dinner"})
FoundDrink ==
    FoundItem(1, "Berry Smoothie", 1, <<"pepper">>, <<" Capsicum ">>, {"drink", "snack"})
FoundNone ==
    FoundItem(2, "apple pie", 0, <<>>, <<"beef">>, {"dessert"})

WebAnswer(key, find_status, found, info_status) ==
    [key |-> key, find_status |-> find_status, found |-> found, info_status |-> info_status]
WebFound ==
    {WebAnswer(TRUE, 200, f, 200) :
        f \in {<<FoundPeppers>>, <<FoundSteak, FoundPeppers>>, <<FoundDrink, FoundNone>>,
               <<FoundNone>>}}
WebFailures ==
    {WebAnswer(FALSE, 200, <<FoundPeppers>>, 200), WebAnswer(TRUE, 0, <<>>, 200),
     WebAnswer(TRUE, 402, <<>>, 200), WebAnswer(TRUE, 200, <<FoundPeppers>>, 429)}
\* The requests: a kind and how the provider answers.
WebRequests ==
    {<<"food", up>> : up \in WebFound \cup WebFailures}
    \cup {<<"drink", WebAnswer(TRUE, 200, <<FoundDrink, FoundNone>>, 200)>>}

WebAdd == AddIngredientOf(TRUE, {"u1"}, PantryNames, {QBlank}, {""})
WebDelete == DeleteIngredientOf(TRUE, {"u1"}, 1..MaxIngredients)

WebRecipesOf(users, requests) ==
    \E user \in users, rq \in requests :
        \E r \in {web_recipes(db, session[user], user, rq[1], rq[2])} :
            /\ session' = [session EXCEPT ![user] = r.session]
            /\ resp' = [op |-> "web_recipes", user |-> user, status |-> r.status,
                        args |-> [kind |-> rq[1], up |-> rq[2]],
                        out |-> [message |-> r.message, results |-> r.results]]
            /\ UNCHANGED <<db, today, txn>>

WebRecipes == WebRecipesOf({"u1"}, WebRequests)

NextWeb ==
    \/ WebAdd
    \/ WebDelete
    \/ WebRecipes

SpecWeb == Init /\ [][NextWeb]_vars

\* ---------------------------------------------------------- SpecUpstream
\* The five handlers that call a provider, for one user, with each provider
\* answering, failing, refusing or not configured.

WebCallNoKey == [key |-> FALSE, status |-> 0, results |-> <<>>]
WebCallFailed == [key |-> TRUE, status |-> 0, results |-> <<>>]
WebCallRefused == [key |-> TRUE, status |-> 500, results |-> <<>>]
WebCallPasta ==
    [key |-> TRUE, status |-> 200,
     results |-> <<JDict([id |-> JInt(101), title |-> JStr("Pasta")])>>]

AiCallNoClient == [client |-> FALSE, text |-> <<>>]
AiCallFailed == [client |-> TRUE, text |-> <<>>]
AiCallZucchini ==
    [client |-> TRUE,
     text |-> <<<<<<Obj(JDict([recipes |-> JList(<<JDict([title |-> JStr("Zucchini"),
                                                          id |-> JStr("zucchini")])>>)]))>>>>>>]

\* The searches: how Spoonacular and OpenAI answer each.
UpSearches ==
    {<<WebCallNoKey, AiCallNoClient>>, <<WebCallFailed, AiCallFailed>>,
     <<WebCallRefused, AiCallZucchini>>, <<WebCallPasta, AiCallNoClient>>,
     <<WebCallPasta, AiCallZucchini>>}

UpImageAnswers ==
    {ImageAnswer(TRUE, FALSE, 200, "img"), ImageAnswer(TRUE, TRUE, 200, ""),
     ImageAnswer(TRUE, FALSE, 429, "img"), ImageAnswer(FALSE, FALSE, 200, "img")}

ChatAnswer(key, status, body, titles, gen_url, image) ==
    [key |-> key, status |-> status, body |-> body, titles |-> titles,
     gen_url |-> gen_url, image |-> image]
UpChatAnswers ==
    {ChatAnswer(FALSE, 200, "recipes", <<"Pasta">>, "", ImageAnswer(TRUE, FALSE, 200, "img")),
     ChatAnswer(TRUE, 0, "recipes", <<>>, "", ImageAnswer(TRUE, FALSE, 200, "img")),
     ChatAnswer(TRUE, 500, "not_json", <<>>, "", ImageAnswer(TRUE, FALSE, 200, "img")),
     ChatAnswer(TRUE, 200, "empty_choices", <<>>, "", ImageAnswer(TRUE, FALSE, 200, "img"))}
    \cup {ChatAnswer(TRUE, 200, "recipes", <<"Pasta", "">>, "", im) : im \in UpImageAnswers}

Nutrients(cal, pro) ==
    JDict([nutrients |->
             JList(<<JDict([name |-> JStr("Calories"), amount |-> JInt(cal)]),
                     JDict([name |-> JStr("Protein"), amount |-> JInt(pro)])>>)])
UpSpoonCalls ==
    {WebCallNoKey, WebCallFailed, WebCallRefused, WebCallPasta,
     [key |-> TRUE, status |-> 200,
      results |-> <<JDict([id |-> JInt(101), title |-> JStr("Pasta"),
                           image |-> JStr("img"), nutrition |-> Nutrients(3, 1)]),
                    JDict([id |-> JInt(102), image |-> JStr("img"),
                           nutrition |-> Nutrients(2, 2)])>>]}

UpAdd == AddIngredientOf(TRUE, {"u1"}, {"beef"}, {QBlank}, {""})

UpRecipesSearch ==
    \E rq \in UpSearches :
        \E webcall \in {rq[1]}, aicall \in {rq[2]},
           r \in {recipes_search_request(session["u1"], rq[1], rq[2])} :
            /\ session' = [session EXCEPT !["u1"] = r.session]
            /\ resp' = [op |-> "recipes_search", user |-> "u1", status |-> r.status,
                        args |-> [web |-> webcall, ai |-> aicall], out |-> <<>>]
            /\ UNCHANGED <<db, today, txn>>

UpWebRecipes ==
    WebRecipesOf({"u1"}, {<<"food", up>> :
                            up \in WebFailures
                                   \cup {WebAnswer(TRUE, 200, <<FoundSteak>>, 200)}})

UpAiRecipes ==
    \E up \in UpChatAnswers :
        \E r \in {ai_recipes(db, session["u1"], "u1", up)} :
            /\ session' = [session EXCEPT !["u1"] = r.session]
            /\ resp' = [op |-> "ai_recipes", user |-> "u1", status |-> r.status,
                        args |-> [up |-> up],
                        out |-> [message |-> r.message, recipes |-> r.recipes]]
            /\ UNCHANGED <<db, today, txn>>

UpDetail ==
    \E rq \in {<<"ai", "zucchini">>, <<"web", "101">>, <<"web", "zucchini">>,
               <<"web", "102">>, <<"ai", "1">>},
       up \in UpImageAnswers :
        \E r \in {recipe_detail(session["u1"], rq[1], rq[2], up)} :
            /\ session' = [session EXCEPT !["u1"] = r.session]
            /\ resp' = [op |-> "recipe_detail", user |-> "u1", status |-> r.status,
                        args |-> [source |-> rq[1], recipe_id |-> rq[2], up |-> up],
                        out |-> <<>>]
            /\ UNCHANGED <<db, today, txn>>

UpNutrition ==
    \E rq \in {<<<<>>, call>> : call \in UpSpoonCalls}
               \cup {<<<<Target(<<100>>, <<40>>, <<0>>, <<>>)>>, WebCallNoKey>>} :
        \E post \in {rq[1]}, call \in {rq[2]},
           r \in {nutrition_target_upsert(db, today, session["u1"], "u1", rq[1], rq[2])} :
            /\ Bounded(r.db)
            /\ db' = r.db
            /\ session' = [session EXCEPT !["u1"] = r.session]
            /\ resp' = [op |-> "nutrition_target_upsert", user |-> "u1",
                        status |-> r.status, args |-> [post |-> post, call |-> call],
                        out |-> r.suggestions]
            /\ UNCHANGED <<today, txn>>

InitUpstream ==
    /\ db = [nutritionTargets |-> {}] @@ EmptyDb
    /\ session = NoSession
    /\ today = MaxDay - 2
    /\ resp = NoResp
    /\ txn = NoTxn

NextUpstream ==
    \/ UpAdd
    \/ UpRecipesSearch
    \/ UpWebRecipes
    \/ UpAiRecipes
    \/ UpDetail
    \/ UpNutrition

SpecUpstream == InitUpstream /\ [][NextUpstream]_vars

\* --------------------------------------------------------- SpecProviders
\* The normalisers of what the two providers answer, on answers with
\* well-formed and malformed records.

SeqsUpTo2(S) == {<<>>} \cup {<<a>> : a \in S} \cup {<<a, b>> : a \in S, b \in S}

AiEntries ==
    {JDict([title |-> JStr("Soup"), id |-> JStr("soup"), summary |-> JStr("Warm")]),
     JDict([title |-> JStr(" Soup ")]),
     JDict([title |-> JInt(5), id |-> JStr("a")]),
     JDict([title |-> JStr("Salad"), id |-> JInt(7)]),
     JStr("soup")}

ObjOf(entries) == Obj(JDict([recipes |-> JList(entries)]))
OneLine(tokens) == <<<<tokens>>>>
WordLine(w) == <<<<Word(w)>>>>
TableLine(ws) == [i \in 1..Len(ws) |-> IF ws[i] = "" THEN <<>> ELSE <<Word(ws[i])>>]

Prose3 == <<WordLine("Here are some ideas"), WordLine("Try a soup"), WordLine("Or a salad")>>
Table ==
    <<TableLine(<<"Title", "Summary">>), TableLine(<<"---", "---">>),
      TableLine(<<"Soup", "Warm">>), TableLine(<<"Salad", "">>)>>

AiTexts ==
    UNION {{OneLine(<<ObjOf(l)>>),
            OneLine(<<Word("Here"), ObjOf(l), Word("enjoy")>>),
            OneLine(<<Word("Here"), ObjOf(l), Word("enjoy"), Junk>>),
            OneLine(<<LBr, ObjOf(l), RBr>>)} : l \in SeqsUpTo2(AiEntries)}
    \cup {<<>>, Prose3, SubSeq(Prose3, 1, 2), Table, OneLine(<<Num>>),
          OneLine(<<Obj(JDict([recipes |-> JStr("none")]))>>),
          OneLine(<<Obj(JDict(<<>>))>>)}

AiCalls ==
    {[client |-> TRUE, text |-> t] : t \in AiTexts} \cup {[client |-> FALSE, text |-> <<>>]}

WebEntries ==
    {JDict([id |-> JInt(101), title |-> JStr("Pasta")]),
     JDict([id |-> JStr("12")]),
     JDict([title |-> JStr("Pasta")]),
     JDict([id |-> JStr("abc"), title |-> JStr("Pasta")]),
     JStr("x")}

WebCalls ==
    {[key |-> TRUE, status |-> 200, results |-> l] : l \in SeqsUpTo2(WebEntries)}
    \cup {[key |-> FALSE, status |-> 0, results |-> <<>>],
          [key |-> TRUE, status |-> 0, results |-> <<>>],
          [key |-> TRUE, status |-> 500, results |-> <<>>]}

OpenaiGenerate ==
    \E call \in AiCalls :
        /\ resp' = [op |-> "_openai_generate", user |-> "", status |-> "",
                    args |-> call, out |-> _openai_generate(call)]
        /\ UNCHANGED <<db, session, today, txn>>

SpoonacularSearch ==
    \E call \in WebCalls :
        /\ resp' = [op |-> "_spoonacular_search", user |-> "", status |-> "",
                    args |-> call, out |-> _spoonacular_search(call)]
        /\ UNCHANGED <<db, session, today, txn>>

SpoonSearch ==
    \E call \in WebCalls :
        /\ resp' = [op |-> "spoon_search", user |-> "", status |-> "",
                    args |-> call, out |-> spoon_search(call)]
        /\ UNCHANGED <<db, session, today, txn>>

NextProviders ==
    \/ OpenaiGenerate
    \/ SpoonacularSearch
    \/ SpoonSearch

SpecProviders == Init /\ [][NextProviders]_vars

\* ------------------------------------------------------------- properties

\* C1: save_favorite is idempotent on (owner, source, external_id): once a
\* call has stored or found the recipe of a session record, the same call
\* again (session unchanged) reports "already in favorites", changes no field
\* of any row, and there is exactly one row with that key.
C1_SaveFavoriteIdempotent ==
    (resp.op = "save_favorite" /\ resp.status \in {"saved", "updated", "already"}) =>
        LET again == save_favorite(db, session[resp.user], resp.user,
                                   resp.args.source, resp.args.recipe_id)
            Key(tbl) == {r \in tbl : r.user = resp.user /\ r.source = resp.args.source
                                     /\ r.external_id = resp.args.recipe_id}
        IN  /\ Cardinality(Key(db.savedRecipes)) = 1
            /\ again.status = "already"
            /\ again.db = db
            /\ Cardinality(Key(again.db.savedRecipes)) = 1

\* A second save of a record whose title is longer than 200 characters was
\* answered "already in favorites"; the row holds the truncated title.
C1_Witness ==
    /\ resp.op = "save_favorite"
    /\ resp.status = "already"
    /\ resp.args.recipe_id = "101"
    /\ \E r \in db.savedRecipes : r.user = resp.user /\ r.external_id = "101"
                                  /\ r.title = "L200"

\* C3: in every reachable state no two Ingredient rows of one owner have
\* names equal ignoring case, no two SavedRecipe rows share (owner, source,
\* external_id), no two MealPlan rows share (owner, week start), and no two
\* Meal rows share (plan, date, slot).
C3_UniqueRows ==
    /\ \A a, b \in db.ingredients :
          (a.user = b.user /\ Lower(a.name) = Lower(b.name)) => a = b
    /\ \A a, b \in db.savedRecipes :
          (a.user = b.user /\ a.source = b.source /\ a.external_id = b.external_id)
              => a = b
    /\ \A a, b \in db.mealPlans :
          (a.user = b.user /\ a.start_date = b.start_date) => a = b
    /\ \A a, b \in db.meals :
          (a.plan = b.plan /\ a.date = b.date /\ a.meal_type = b.meal_type) => a = b

\* add_ingredient was refused a name that the owner already has in another
\* casing, while another owner holds the same name.
C3_Witness ==
    /\ resp.op = "add_ingredient"
    /\ resp.status = "could_not_add"
    /\ \E a, b \in db.ingredients : a.user # b.user /\ Lower(a.name) = Lower(b.name)

\* C4: a pantry review submission of one row, not deleted, whose name equals
\* ignoring case an ingredient of the user with a stored number q and whose
\* quantity is a number d: the request completes, the ingredient's quantity
\* becomes q + d, its unit changes only if the row gave one, and the user has
\* one row of that name.
C4_ReviewMergeAddsQuantity ==
    [][(/\ resp'.op = "pantry_extract_review"
        /\ resp'.status \notin {"404", "form_error"}
        /\ Len(resp'.args.rows) = 1
        /\ ~resp'.args.rows[1].delete
        /\ resp'.args.rows[1].quantity.kind = "num"
        /\ \E obj \in review_get(db.ingredients, resp'.user, resp'.args.rows[1].name) :
               obj.quantity.kind = "num")
       => LET row == resp'.args.rows[1]
              obj == CHOOSE r \in review_get(db.ingredients, resp'.user, row.name) : TRUE
          IN  /\ resp'.status = "redirect"
              /\ \E n \in db'.ingredients :
                    /\ n.id = obj.id
                    /\ n.quantity = QNum(obj.quantity.n + row.quantity.n)
                    /\ n.unit = IF row.unit # "" THEN row.unit ELSE obj.unit
              /\ Cardinality(review_get(db'.ingredients, resp'.user, row.name)) = 1]_vars

\* C2: when two review submissions of one user for the same ingredient name
\* run concurrently, both complete and the stored quantity is the initial one
\* plus both submitted quantities, in every interleaving.
C2_BothQuantitiesKept ==
    (\A p \in Procs : txn.proc[p].pc = "done") =>
        /\ \A p \in Procs : txn.proc[p].status = "redirect" /\ txn.proc[p].saved
        /\ \E r \in review_get(db.ingredients, "u1", "milk") :
              r.quantity = QNum(txn.initial + txn.proc[1].row.quantity.n
                                + txn.proc[2].row.quantity.n)

\* The output of the stages of the extractor on the inputs of a request.
StageOcr(a) == IF a.text # <<>> THEN _parse_ingredients_from_text(a.text) ELSE <<>>
StageInline(a) == _vision_extract_items_with_openai(a.inline)
StageUrl(a) == _extract_with_openai_vision(a.url)
RanIn(stages, stage) == \E i \in 1..Len(stages) : stages[i] = stage
Ran(stage) == RanIn(resp.out.stages, stage)

\* What the claim asks of a pipeline run with arguments a and result out.
FirstNonEmptyStage(a, out) ==
    \E c1 \in {StageOcr(a)}, c2 \in {StageInline(a)}, c3 \in {StageUrl(a)} :
        /\ out.candidates # <<>>
        /\ out.candidates =
              IF c1 # <<>> THEN c1
              ELSE IF c2 # <<>> THEN c2
              ELSE IF a.has_url /\ c3 # <<>> THEN c3
              ELSE DemoList
        /\ Len(DemoList) = 3
        /\ out.stages[1] = "ocr"
        /\ RanIn(out.stages, "vision_inline") <=> c1 = <<>>
        /\ RanIn(out.stages, "vision_url") <=> (c1 = <<>> /\ c2 = <<>> /\ a.has_url)
        /\ RanIn(out.stages, "demo")
              <=> (c1 = <<>> /\ c2 = <<>> /\ (a.has_url => c3 = <<>>))

\* C5: the extractor returns the output of the first stage, in the order OCR
\* parsing, inline vision, URL vision, that yields candidates; a later stage
\* runs only when every earlier one yielded nothing (the URL stage only with
\* a URL); a failed stage yields nothing and the pipeline goes on; the demo
\* list of 3 items is returned when every stage yielded nothing, so the
\* result is never empty.  An upload request with neither a file nor a
\* storage key runs no stage and creates no upload row.
C5_ExtractorStages ==
    [][ /\ resp'.op = "_extract_candidates" => FirstNonEmptyStage(resp'.args, resp'.out)
        /\ resp'.op = "pantry_extract_start" =>
              IF ~resp'.args.uploaded /\ resp'.args.s3_key = ""
              THEN /\ resp'.status = "no_image"
                   /\ resp'.out.stages = <<>>
                   /\ db' = db
              ELSE /\ resp'.status = "redirect"
                   /\ FirstNonEmptyStage(resp'.args, resp'.out)
                   /\ \E up \in db'.uploads :
                         /\ db'.uploads = db.uploads \cup {up}
                         /\ up \notin db.uploads
                         /\ up.candidates = resp'.out.candidates
      ]_vars

\* An upload whose OCR read nothing and whose inline vision call failed got
\* its candidates from the URL stage.
C5_Witness ==
    /\ resp.op = "pantry_extract_start"
    /\ resp.status = "redirect"
    /\ ~resp.args.inline.ok
    /\ resp.out.stages = <<"ocr", "vision_inline", "vision_url">>
    /\ \E up \in db.uploads : Len(up.candidates) = VisionCap

\* C6: the candidate list has at most 50 items when it comes from OCR
\* parsing and at most 40 when it comes from a vision stage.
C6_CandidateCaps ==
    resp.op \in {"_extract_candidates", "pantry_extract_start"}
    /\ resp.status # "no_image" =>
        /\ resp.out.stages = <<"ocr">> => Len(resp.out.candidates) <= 50
        /\ (Ran("vision_inline") /\ ~Ran("demo")) => Len(resp.out.candidates) <= 40

\* The name the claim gives a stripped line: what follows the unit, what
\* follows the number, what precedes the number, or the whole line.
NameAsClaimed(line) ==
    IF Shape1(line) # {} THEN StripOf(group1_is_name_shape1(line), Whitespace)
    ELSE IF Shape2(line) # {} THEN StripOf(group1_is_name_shape2(line), Whitespace)
    ELSE IF Shape3(line) # {} THEN StripOf(group1_shape3(line), Whitespace)
    ELSE line

\* C7: OCR line parsing gives every non-blank line a candidate whose name is
\* the name part of the line by the first matching shape; "2 bell pepper"
\* gives bell pepper, 2, no unit and "200 g chicken breast" gives chicken
\* breast, 200, g.
C7_LineShapes ==
    resp.op = "_parse_ingredients_from_text" =>
        /\ (\A j \in 1..Len(resp.args.text) :
                StripOf(StripOf(resp.args.text[j], Bullets), Whitespace) # <<>>)
           => \A i \in 1..Len(resp.out.candidates) :
                 resp.out.candidates[i].name
                    = NameAsClaimed(StripOf(StripOf(resp.args.text[i], Bullets),
                                            Whitespace))
        /\ resp.args.text = <<L_bell, L_chicken>> =>
              resp.out.candidates =
                 <<[name |-> Sub(L_bell, 3, Len(L_bell)), quantity |-> <<"2">>,
                    unit |-> <<>>],
                   [name |-> Sub(L_chicken, 7, Len(L_chicken)),
                    quantity |-> <<"2", "0", "0">>, unit |-> <<"g">>]>>

\* C8: sync_logged_meals_from_plan(owner, day) is idempotent: a second call
\* for the same owner and day leaves the LoggedMeal rows as the first call
\* left them.
C8_SyncIdempotent ==
    resp.op = "sync_logged_meals_from_plan" =>
        sync_logged_meals_from_plan(db, today, resp.user, resp.args.day).loggedMeals
            = db.loggedMeals

Abs(x) == IF x < 0 THEN -x ELSE x

\* pct is an integer nearest to actual / target * 100, clamped to 0..200, or
\* 0 when the target is None, zero or negative.
PctAsClaimed(actual, target, pct) ==
    /\ pct \in 0..200
    /\ IF target = <<>> \/ OrZero(target) <= 0 THEN pct = 0
       ELSE \E k \in 0..((100 * actual) \div target[1] + 1) :
               /\ 2 * Abs(100 * actual - k * target[1]) <= target[1]
               /\ pct = IF k > 200 THEN 200 ELSE k

\* C9: every percentage of compute_daily_totals is round(actual / target x
\* 100) clamped to 0..200, and 0 when the target is zero, negative or
\* missing; target 100 with actual 500 gives 200.
C9_PercentagesClamped ==
    resp.op = "compute_daily_totals" =>
        /\ PctAsClaimed(resp.out.calories, resp.args.target.calories, resp.out.calories_pct)
        /\ PctAsClaimed(resp.out.protein_g, resp.args.target.protein_g, resp.out.protein_pct)
        /\ PctAsClaimed(resp.out.carbs_g, resp.args.target.carbs_g, resp.out.carbs_pct)
        /\ PctAsClaimed(resp.out.fat_g, resp.args.target.fat_g, resp.out.fat_pct)
        /\ (resp.out.calories = 500 /\ resp.args.target.calories = <<100>>)
              => resp.out.calories_pct = 200

\* Totals of 500 kcal against a target of 100, 23 g of protein against 40
\* (57.5 %), a zero target for carbs and none for fat.
C9_Witness ==
    /\ resp.op = "compute_daily_totals"
    /\ resp.args.target = Target(<<100>>, <<40>>, <<0>>, <<>>)
    /\ resp.out.calories = 500
    /\ resp.out.calories_pct = 200
    /\ resp.out.protein_g = 23
    /\ resp.out.protein_pct \in {57, 58}
    /\ resp.out.fat_g = 10
    /\ resp.out.fat_pct = 0

\* The sum of field f over the rows of the owner and the day with an id up
\* to n.
RECURSIVE SumOwnerDay(_, _, _, _, _)
SumOwnerDay(tbl, user, day, f, n) ==
    IF n = 0 THEN 0
    ELSE SumOwnerDay(tbl, user, day, f, n - 1)
         + (IF \E m \in tbl : m.id = n /\ m.user = user /\ m.date = day
            THEN (CHOOSE m \in tbl : m.id = n)[f] ELSE 0)

Macros == {"calories", "protein_g", "carbs_g", "fat_g", "fiber_g", "sugar_g"}

\* C10: compute_daily_totals(owner, day, target) returns for each macro the
\* sum over exactly the LoggedMeal rows of that owner and day; with no such
\* row every total and every percentage is zero.
C10_TotalsOfOwnerAndDay ==
    resp.op = "compute_daily_totals" =>
        /\ \A f \in Macros :
              resp.out[f] = SumOwnerDay(db.loggedMeals, resp.user, resp.args.day, f,
                                        Max({0} \cup {m.id : m \in db.loggedMeals}))
        /\ (~\E m \in db.loggedMeals : m.user = resp.user /\ m.date = resp.args.day)
              => /\ \A f \in Macros : resp.out[f] = 0
                 /\ resp.out.calories_pct = 0
                 /\ resp.out.protein_pct = 0
                 /\ resp.out.carbs_pct = 0
                 /\ resp.out.fat_pct = 0

\* Totals of one row of the owner and the day while the log also holds a
\* row of another owner for that day and a row of the owner for another day.
C10_Witness ==
    /\ resp.op = "compute_daily_totals"
    /\ resp.out.calories = 500
    /\ \E m \in db.loggedMeals : m.user # resp.user /\ m.date = resp.args.day
                                 /\ m.calories > 0
    /\ \E m \in db.loggedMeals : m.user = resp.user /\ m.date # resp.args.day
                                 /\ m.calories > 0

\* C11: after every recipes_search request the session bundle holds exactly
\* the ai and web results of that search, possibly none, and nothing of the
\* bundle before it.
C11_SearchReplacesBundle ==
    resp.op = "recipes_search" /\ resp.args # <<>> =>
        /\ session[resp.user].ai = resp.args.ai
        /\ session[resp.user].web = resp.args.web
        /\ Len(session[resp.user].combined) = Len(resp.args.ai) + Len(resp.args.web)

\* q is a permutation of p.
IsPermutation(p, q) ==
    /\ Len(p) = Len(q)
    /\ \E f \in [1..Len(p) -> 1..Len(p)] :
          /\ \A i, j \in 1..Len(p) : f[i] = f[j] => i = j
          /\ \A i \in 1..Len(p) : q[i] = p[f[i]]

\* C12: the stored bundle has ai equal to ai_items, web equal to web_items,
\* and combined a permutation of ai_items followed by web_items with every
\* ai record before every web record and, within a source, the records in
\* the order of their lower-cased titles.
C12_StoreThreeViews ==
    resp.op = "recipes_search" /\ resp.args # <<>> /\ resp.status = "redirect" =>
        LET b == session[resp.user]
            c == b.combined
        IN  /\ b.ai = resp.args.ai
            /\ b.web = resp.args.web
            /\ DOMAIN b = {"ai", "web", "combined"}
            /\ IsPermutation(resp.args.ai \o resp.args.web, c)
            /\ \A i, j \in 1..Len(c) :
                  i < j => /\ ~(c[i].source = "web" /\ c[j].source = "ai")
                           /\ c[i].source = c[j].source =>
                                 ~StrLess(LowerStr(Spell(c[j].title)),
                                          LowerStr(Spell(c[i].title)))

\* A search stored three ai and three web records whose titles sort
\* differently with and without their case.
C12_Witness ==
    /\ resp.op = "recipes_search"
    /\ resp.status = "redirect"
    /\ resp.args # <<>>
    /\ resp.args.ai = <<AiZucchini, AiPie, AiBanana>>
    /\ resp.args.web = <<WebZucchini, WebPie, WebPie2>>
    /\ session[resp.user].combined
          = <<AiPie, AiBanana, AiZucchini, WebPie, WebPie2, WebZucchini>>

\* C13: lookup(source, id) returns the first record of the stored list of
\* that source whose id has the string form of id, and none when there is no
\* such record or the source is neither ai nor web; it never returns a
\* record of the other source.
C13_LookupBySourceAndId ==
    resp.op = "_get_session_recipe" =>
        LET b   == session[resp.user]
            src == resp.args.source
            rid == str_id(resp.args.id)
            lst == IF src = "ai" THEN b.ai ELSE IF src = "web" THEN b.web ELSE <<>>
            hit == {i \in 1..Len(lst) : str_id(lst[i].id) = rid}
        IN  /\ hit = {} <=> resp.out = <<>>
            /\ hit # {} =>
                  /\ resp.out = <<lst[Min(hit)]>>
                  /\ resp.out[1].source = src
            /\ src \notin {"ai", "web"} => resp.out = <<>>

\* A lookup of web id 1, given as a number, returned the first of two web
\* records with that id while an ai record with id "101" and a web record
\* were stored.
C13_Witness ==
    /\ resp.op = "_get_session_recipe"
    /\ resp.args.source = "web"
    /\ resp.args.id = IntId(1)
    /\ resp.out = <<WebPie>>
    /\ \E i \in 1..Len(session[resp.user].ai) : session[resp.user].ai[i] = AiPie

\* The text holds a JSON object, and whether it holds a pipe table.
ObjTokens(text) == SelectSeq(Tokens(text), LAMBDA tk : tk.k = "obj")

\* C14: normalising the model's text never raises, whatever the text and the
\* shape of its records; a text with neither a JSON object nor a pipe table
\* gives the empty list.
C14_NormalizingNeverRaises ==
    resp.op = "_openai_generate" =>
        /\ ~resp.out.raised
        /\ (ObjTokens(resp.args.text) = <<>> /\ ~HasPipe(resp.args.text))
              => resp.out.recipes = <<>>

\* The place of a strategy in the order of the strategies.
StrategyRank(st) == CASE st = "json" -> 1 [] st = "embedded" -> 2 [] st = "table" -> 3

\* The records of the "recipes" list of a JSON object.
RecordsOf(obj) ==
    IF obj.v.t = "dict" /\ JGet(obj.v, "recipes").t = "list"
    THEN ai_records(JGet(obj.v, "recipes").items, 0)
    ELSE [ok |-> TRUE, recipes |-> <<>>]

\* C15: the strategies run in the order whole-text JSON, embedded {...},
\* pipe table, a later one only when the earlier ones gave no records; a
\* text that is no JSON as a whole but holds a JSON object gives the records
\* of that object.
C15_StrategiesInOrder ==
    resp.op = "_openai_generate" /\ ~resp.out.raised =>
        LET st  == resp.out.stages
            txt == resp.args.text
        IN  /\ \A i, j \in 1..Len(st) : i < j => StrategyRank(st[i]) < StrategyRank(st[j])
            /\ (\E i \in 1..Len(st) : st[i] = "embedded") => ~json_loads(txt).ok
            /\ (~json_loads(txt).ok /\ Len(ObjTokens(txt)) = 1
                /\ RecordsOf(ObjTokens(txt)[1]).ok
                /\ RecordsOf(ObjTokens(txt)[1]).recipes # <<>>)
                  => resp.out.recipes = RecordsOf(ObjTokens(txt)[1]).recipes

\* A search result with an id that int() takes; an AI entry that is an object.
WellFormedWeb(it) == it.t = "dict" /\ int_of(JGet(it, "id")).ok
WellFormedAi(r) == r.t = "dict"

\* C16: the normalised list has one record for each well-formed record of
\* the provider's answer, in order, and none for a malformed one (a search
\* result without a numeric id, an entry of the AI list that is no object).
C16_MalformedRecordSkipped ==
    /\ resp.op = "_spoonacular_search" /\ resp.args.key /\ resp.args.status = 200 =>
          LET good == SelectSeq(resp.args.results, WellFormedWeb)
          IN  /\ Len(resp.out) = Len(good)
              /\ \A i \in 1..Len(good) :
                    resp.out[i].id = IntId(int_of(JGet(good[i], "id")).n)
    /\ resp.op = "_openai_generate" /\ ~resp.out.raised
       /\ json_loads(resp.args.text).ok /\ Len(ObjTokens(resp.args.text)) = 1
       /\ Len(Tokens(resp.args.text)) = 1 =>
          LET obj  == ObjTokens(resp.args.text)[1]
              raw  == JGet(obj.v, "recipes")
              good == IF raw.t = "list" THEN SelectSeq(raw.items, WellFormedAi) ELSE <<>>
          IN  good # <<>> => Len(resp.out.recipes) = Len(good)

\* C17: a write refused by a uniqueness constraint never leaves the handler
\* as an exception: add_ingredient, the pantry review submit, save_favorite,
\* recipe_create, recipe_update and meal_add all answer with a message or a
\* redirect, never with the server-error page of an unhandled IntegrityError.
C17_NoIntegrityException ==
    resp.op \in {"add_ingredient", "pantry_extract_review", "save_favorite",
                 "recipe_create", "recipe_update", "meal_add"}
        => resp.status # "500"

\* C18: a request for a recipe the session no longer holds (a stale or
\* unknown id, or a source with no list) gets the standard not-found
\* response, from recipe_detail and from save_favorite alike, and no
\* persisted row is created or changed by it.
C18_StaleIdNotFound ==
    [][(/\ resp'.op \in {"recipe_detail", "save_favorite"}
        /\ _get_session_recipe(session[resp'.user], resp'.args.source,
                               resp'.args.recipe_id) = <<>>)
       => (resp'.status = "404" /\ db' = db)]_vars

\* The item of the provider's answer a listed result was made from.
FoundOf(up, id) == CHOOSE it \in {up.found[i] : i \in 1..Len(up.found)} : it.id = id

\* The names of the pantry rows of a user, as texts.
PantryItems(d, user) == {Spell(r.name) : r \in {x \in d.ingredients : x.user = user}}

\* C20: every result web_recipes lists has usedIngredientCount equal to the
\* number of distinct pantry items that is_match pairs with at least one of
\* the provider's used-ingredient names, that count is at least
\* SPOON_MIN_CONFIRMED, and none of its missedIngredients matches a pantry
\* item.
C20_UsedCountIsMatchedPantry ==
    (resp.op = "web_recipes" /\ resp.status = "page") =>
        \A i \in 1..Len(resp.out.results) :
            LET r      == resp.out.results[i]
                item   == FoundOf(resp.args.up, r.id)
                pantry == PantryItems(db, resp.user)
                used   == {Spell(item.usedIngredients[k]) :
                             k \in 1..Len(item.usedIngredients)}
            IN  /\ r.usedIngredientCount
                     = Cardinality({p \in pantry : \E u \in used : is_match(p, u)})
                /\ r.usedIngredientCount >= SPOON_MIN_CONFIRMED
                /\ \A k \in 1..Len(r.missedIngredients) :
                       \A p \in pantry : ~is_match(p, r.missedIngredients[k])

\* A provider is unavailable: its key is not configured, the request raised
\* (status 0) or the answer is not a 200.
SearchDown(call) == ~call.key \/ call.status # 200
AiDown(call) == ~call.client \/ call.text = <<>>
WebDown(up) == ~up.key \/ up.find_status # 200 \/ up.info_status # 200
ChatDown(up) == ~up.key \/ up.status # 200
ImageDown(up) == ~up.key \/ up.raises \/ up.status # 200

OfKind(kind, item) ==
    IF item.dishTypes \cap DRINK_TYPES # {} THEN kind # "food" ELSE kind # "drink"

\* C21: when the key is set, findByIngredients and informationBulk answer
\* 200 and the pantry is not empty, web_recipes answers with the results
\* page, and every record of the requested kind that the provider gives with
\* usedIngredientCount >= 1 is listed there with its id and title.
C21_EveryProviderMatchListed ==
    (/\ resp.op = "web_recipes"
     /\ resp.args.up.key
     /\ resp.args.up.find_status = 200 /\ resp.args.up.info_status = 200
     /\ PantryItems(db, resp.user) # {}) =>
        \A i \in 1..Len(resp.args.up.found) :
            LET item == resp.args.up.found[i]
            IN  (item.usedIngredientCount >= 1 /\ OfKind(resp.args.kind, item)) =>
                    /\ resp.status = "page"
                    /\ \E j \in 1..Len(resp.out.results) :
                          /\ resp.out.results[j].id = item.id
                          /\ resp.out.results[j].title = item.title

\* ------------------------------------------------- is_match on its own

\* The names is_match is applied to: plurals, longer phrases, synonyms, a
\* misspelling, a padded capitalised name and the empty name.
MatchNames ==
    {"bell pepper", "chicken breast", "scallions", "beef", "bell peppers",
     "chicken breast fillet", "Sirloin Steak", "pepper", "salt", "red peppers",
     " Capsicum ", "green onion", "onion", ""}

IsMatch ==
    /\ \E pantry_item \in MatchNames, candidate \in MatchNames :
          resp' = [op |-> "is_match", user |-> "", status |-> "",
                   args |-> [pantry_item |-> pantry_item, candidate |-> candidate],
                   out |-> is_match(Spell(pantry_item), Spell(candidate))]
    /\ UNCHANGED <<db, session, today, txn>>

NextMatch == IsMatch

SpecMatch == Init /\ [][NextMatch]_vars

\* The name is a key of the synonym table.
IsSynonymKey(name) == SYNONYMS(norm(Spell(name))) # {}

\* C22, as the code has it: is_match is not symmetric, and the asymmetry lies
\* in the synonym table, which is looked up by the pantry item only
\* (is_match("beef", "Sirloin Steak") holds and is_match("Sirloin Steak",
\* "beef") does not); for a pantry item and a candidate of which neither is
\* a key of the synonym table, is_match gives the same answer both ways.
C22_SymmetricOutsideSynonyms ==
    /\ is_match(Spell("beef"), Spell("Sirloin Steak"))
    /\ ~is_match(Spell("Sirloin Steak"), Spell("beef"))
    /\ (/\ resp.op = "is_match"
        /\ ~IsSynonymKey(resp.args.pantry_item)
        /\ ~IsSynonymKey(resp.args.candidate)) =>
           resp.out = is_match(Spell(resp.args.candidate), Spell(resp.args.pantry_item))

\* is_match has paired two different names of which neither is a key of the
\* synonym table: one is a run of whole words of the other.
C22_Witness ==
    /\ resp.op = "is_match"
    /\ ~IsSynonymKey(resp.args.pantry_item)
    /\ ~IsSynonymKey(resp.args.candidate)
    /\ norm(Spell(resp.args.pantry_item)) # norm(Spell(resp.args.candidate))
    /\ resp.out

\* C22 as stated: among the names is_match is applied to, some pantry item
\* and candidate of which neither is a key of the synonym table get
\* different answers from is_match in the two directions.
C22_AsymmetricSubstring ==
    resp.op = "is_match" =>
        \E P \in MatchNames, C \in MatchNames :
            /\ ~IsSynonymKey(P) /\ ~IsSynonymKey(C)
            /\ is_match(Spell(P), Spell(C)) # is_match(Spell(C), Spell(P))

\* The primary keys of the rows of table f.
RowIds(d, f) == {r.id : r \in d[f]}

\* The request r asks to add, save or log a row of table f (a meal added or
\* logged brings its week's plan, and a logged meal its mirror in the plan).
AsksToCreate(f, r) ==
    CASE f = "ingredients"  -> r.op \in {"add_ingredient", "pantry_extract_review"}
      [] f = "savedRecipes" -> r.op \in {"save_favorite", "recipe_create"}
      [] f = "mealPlans"    -> r.op \in {"meal_add", "log_custom_meal"}
      [] f = "meals"        -> r.op \in {"meal_add", "log_custom_meal"}
      [] f = "loggedMeals"  -> r.op \in {"log_custom_meal"}
      [] f = "uploads"      -> r.op \in {"pantry_extract_start"}
      [] f = "nutritionTargets" -> r.op = "nutrition_target_upsert" /\ r.args.post # <<>>
      [] OTHER -> FALSE

\* The request r asks to delete a row of table f.
AsksToDelete(f, r) ==
    CASE f = "ingredients"  -> r.op \in {"delete_ingredient"}
      [] f = "savedRecipes" -> r.op \in {"favorite_delete", "recipe_delete"}
      [] f = "meals"        -> r.op \in {"meal_delete"}
      [] f = "loggedMeals"  -> r.op \in {"delete_meal"}
      [] OTHER -> FALSE

\* C23: a row of a table appears only in a request that asks to add, save
\* or log that entity and disappears only in a request that asks to delete
\* it; a request that views a page (the meal plan among them) creates and
\* deletes no row.
C23_RowsOnlyByExplicitAction ==
    [][\A f \in DOMAIN db :
          /\ RowIds(db', f) \ RowIds(db, f) # {} => AsksToCreate(f, resp')
          /\ RowIds(db, f) \ RowIds(db', f) # {} => AsksToDelete(f, resp')]_vars

\* -------------------------------------------------------------- SpecLog
\* The food log of one user on one day: a favorite planned for today's
\* dinner, meals logged from the quick-log form and from a recipe's page,
\* logged meals deleted, and the nutrition-targets page viewed.

LogRecipeCreate == RecipeCreateOf(TRUE, {"u1"}, {"web"}, {"101"}, {"Pasta"})

LogMealAdd == MealAddOf(TRUE, {"u1"}, {1}, {MaxDay - 2}, {"dinner"})

\* What is posted: the slot, the macros per serving, the quantity in half
\* servings.
LogRequests ==
    {<<"dinner", <<500, 23, 0, 10>>, 2>>, <<"dinner", <<3, 1, 0, 0>>, 1>>,
     <<"lunch", <<500, 23, 0, 10>>, 3>>}

LogCustom ==
    \E rq \in LogRequests : LogCustomMealOf(TRUE, {"u1"}, {rq[1]}, {rq[2]}, {rq[3]})

LogRecipeMealOf(log, users, keys, requests) ==
    \E user \in users, key \in keys, rq \in requests :
        /\ Handled(log, "log_recipe_meal", user,
                   [key |-> key, meal_type |-> rq[1], macros |-> rq[2], halves |-> rq[3]],
                   log_recipe_meal(db, today, user, key, rq[1], rq[2][1], rq[2][2],
                                   rq[2][3], rq[2][4], rq[3]), <<>>)
        /\ UNCHANGED <<session, today, txn>>

LogRecipeMeal == LogRecipeMealOf(TRUE, {"u1"}, {"1", ""}, LogRequests)

\* delete_meal, with the row it removed kept in the response's record.
LogDelete ==
    \E user \in {"u1"}, meal_id \in 1..MaxLogged :
        /\ Handled(TRUE, "delete_meal", user, [meal_id |-> meal_id],
                   delete_meal(db, user, meal_id),
                   {m \in db.loggedMeals : m.id = meal_id /\ m.user = user})
        /\ UNCHANGED <<session, today, txn>>

\* The nutrition-targets page viewed (GET), Spoonacular having no key.
LogTargetsPage ==
    \E r \in {nutrition_target_upsert(db, today, session["u1"], "u1", <<>>, WebCallNoKey)} :
        /\ Bounded(r.db)
        /\ db' = r.db
        /\ session' = [session EXCEPT !["u1"] = r.session]
        /\ resp' = [op |-> "nutrition_target_upsert", user |-> "u1", status |-> r.status,
                    args |-> [post |-> <<>>, call |-> WebCallNoKey], out |-> r.suggestions]
        /\ UNCHANGED <<today, txn>>

NextLog ==
    \/ LogRecipeCreate
    \/ LogMealAdd
    \/ LogCustom
    \/ LogRecipeMeal
    \/ LogDelete
    \/ LogTargetsPage

SpecLog == InitUpstream /\ [][NextLog]_vars

\* The meals of the user's plan of the week of `day` that are dated `day`
\* in slot meal_type.
PlanMeals(d, user, day, meal_type) ==
    {m \in d.meals :
        /\ m.date = day /\ m.meal_type = meal_type
        /\ \E pl \in d.mealPlans :
              pl.id = m.plan /\ pl.user = user /\ pl.start_date = _week_start(day)}

\* C24: log_custom_meal creates exactly one LoggedMeal, of the user and
\* today, and mirrors it into the weekly plan: afterwards the plan of this
\* week exists; if today's plan had a meal in the slot, the plan's meals are
\* unchanged and the user is warned; otherwise the plan now holds a meal for
\* today in that slot.
C24_LogMirrorsIntoPlan ==
    [][resp'.op = "log_custom_meal" =>
          LET u    == resp'.user
              slot == resp'.args.meal_type
          IN  /\ db.loggedMeals \subseteq db'.loggedMeals
              /\ Cardinality(db'.loggedMeals \ db.loggedMeals) = 1
              /\ \A m \in db'.loggedMeals \ db.loggedMeals :
                    m.user = u /\ m.date = today /\ m.meal_type = slot
              /\ \E pl \in db'.mealPlans :
                    pl.user = u /\ pl.start_date = _week_start(today)
              /\ IF PlanMeals(db, u, today, slot) # {}
                 THEN db'.meals = db.meals /\ resp'.status = "logged_conflict"
                 ELSE PlanMeals(db', u, today, slot) # {}
      ]_vars

\* The sources and ids of the records of a list of the bundle.
RecordKeys(lst) == {<<lst[i].source, lst[i].id>> : i \in 1..Len(lst)}

\* C25: in every session, the combined list of the result bundle holds
\* exactly the records of the ai list and of the web list: as many records,
\* and the same sources and ids.
C25_CombinedIsAiPlusWeb ==
    \A u \in Users :
        /\ Len(session[u].combined) = Len(session[u].ai) + Len(session[u].web)
        /\ RecordKeys(session[u].combined)
             = RecordKeys(session[u].ai) \cup RecordKeys(session[u].web)

\* The ids, as the detail urls carry them, of the records of `source` that
\* the session keeps of what the results operations showed last: the
\* bundle's list (recipes_search, the suggestions of the targets page) and
\* the list web_recipes or ai_recipes stored.
ShownIds(sess, source) ==
    {str_id(_get_session_list_for_source(sess, source)[i].id) :
        i \in 1..Len(_get_session_list_for_source(sess, source))}
    \cup (IF source = "web" /\ "web_recipes" \in DOMAIN sess
          THEN {IntStr(sess.web_recipes[i].id) : i \in 1..Len(sess.web_recipes)}
          ELSE {})
    \cup (IF source = "ai" /\ "ai_recipes" \in DOMAIN sess
          THEN {IntStr(sess.ai_recipes[i].id) : i \in 1..Len(sess.ai_recipes)}
          ELSE {})

\* C26: recipe_detail asked for a source and id that a results operation
\* showed last in this session (recipes_search, web_recipes, ai_recipes or
\* the suggestions of the targets page) resolves the record: it does not
\* answer not-found.
C26_ShownRecipeOpens ==
    [][(/\ resp'.op = "recipe_detail"
        /\ resp'.args.recipe_id \in ShownIds(session[resp'.user], resp'.args.source))
          => resp'.status # "404"]_vars

\* ------------------------------------------------------------ SpecOwner
\* Two users: u1 fills a pantry, saves and plans a favorite, uploads a
\* photo and logs a meal; both users then edit and delete rows by primary
\* key, those of the other user among them.

OwnAdd == AddIngredientOf(TRUE, {"u1"}, {"milk"}, {QBlank}, {""})
OwnDeleteIngredient == DeleteIngredientOf(TRUE, Users, {1})
OwnStart ==
    PantryExtractStartOf(TRUE, {"u1"}, {TRUE}, {""}, {<<>>}, {[ok |-> FALSE, items |-> <<>>]},
                         {[ok |-> TRUE, items |-> <<VItem(<<"e", "g", "g">>)>>]})
OwnReview == PantryReviewOf(TRUE, Users, {1}, {TRUE}, {<<Row("egg", QBlank, "")>>})
OwnRecipeCreate == RecipeCreateOf(TRUE, {"u1"}, {"web"}, {"101"}, {"Pasta"})
OwnRecipeUpdate == RecipeUpdateOf(TRUE, Users, {1}, {"web"}, {"102"}, {"Zucchini"})
OwnRecipeDelete == RecipeDeleteOf(TRUE, Users, {1})
OwnFavoriteDelete == FavoriteDeleteOf(TRUE, Users, {1})
OwnMealAdd == MealAddOf(TRUE, Users, {1}, {MaxDay - 2}, {"dinner"})
OwnMealDelete == MealDeleteOf(TRUE, Users, {1})
OwnLog == LogCustomMealOf(TRUE, {"u1"}, {"dinner"}, {<<500, 23, 0, 10>>}, {2})
OwnDeleteMeal == DeleteMealOf(TRUE, Users, {1})

NextOwner ==
    \/ OwnAdd
    \/ OwnDeleteIngredient
    \/ OwnStart
    \/ OwnReview
    \/ OwnRecipeCreate
    \/ OwnRecipeUpdate
    \/ OwnRecipeDelete
    \/ OwnFavoriteDelete
    \/ OwnMealAdd
    \/ OwnMealDelete
    \/ OwnLog
    \/ OwnDeleteMeal

SpecOwner == Init /\ [][NextOwner]_vars

\* The rows of table f of database d that belong to other users than
\* `user` (a meal belongs to the owner of its plan).
RowsOfOthers(d, f, user) ==
    IF f = "meals"
    THEN {m \in d.meals : \E pl \in d.mealPlans : pl.id = m.plan /\ pl.user # user}
    ELSE {r \in d[f] : r.user # user}

\* The request r, made on database d, names by primary key a row that
\* belongs to another user than the one who makes it.
NamesRowOfOther(d, r) ==
    CASE r.op \in {"recipe_update", "recipe_delete", "favorite_delete"} ->
           \E x \in RowsOfOthers(d, "savedRecipes", r.user) : x.id = r.args.pk
      [] r.op = "meal_add" ->
           \E x \in RowsOfOthers(d, "savedRecipes", r.user) : x.id = r.args.recipe_id
      [] r.op = "meal_delete" ->
           \E x \in RowsOfOthers(d, "meals", r.user) : x.id = r.args.meal_id
      [] r.op = "delete_meal" ->
           \E x \in RowsOfOthers(d, "loggedMeals", r.user) : x.id = r.args.meal_id
      [] r.op = "delete_ingredient" ->
           \E x \in RowsOfOthers(d, "ingredients", r.user) : x.id = r.args.pk
      [] r.op = "pantry_extract_review" ->
           \E x \in RowsOfOthers(d, "uploads", r.user) : x.id = r.args.upload_id
      [] OTHER -> FALSE

\* C27: a request of a user leaves the rows of the other users as they were
\* and adds none to them, no meal of a plan carries a favorite of another
\* user than the plan's owner, and a request that names a row of another
\* user is refused (404 or 403) and changes nothing in the database.
C27_OwnershipIsolation ==
    [][resp'.op # "none" =>
          /\ \A f \in DOMAIN db :
                RowsOfOthers(db', f, resp'.user) = RowsOfOthers(db, f, resp'.user)
          /\ \A m \in db'.meals : \A pl \in db'.mealPlans : \A x \in db'.savedRecipes :
                (pl.id = m.plan /\ x.id = m.recipe) => x.user = pl.user
          /\ NamesRowOfOther(db, resp') =>
                resp'.status \in {"404", "403"} /\ db' = db
      ]_vars

\* Two LoggedMeal rows of the same owner, day, slot and source_recipe_id.
SameLogKey(m, x) ==
    /\ m.user = x.user
    /\ m.date = x.date
    /\ m.meal_type = x.meal_type
    /\ m.source_recipe_id = x.source_recipe_id

\* C28: when delete_meal has removed a LoggedMeal of today and left none of
\* its owner, day, slot and source_recipe_id, a view of the nutrition-targets
\* page that follows, the meal plan being the same, brings no such row back.
C28_DeletionSticks ==
    [][(/\ resp.op = "delete_meal"
        /\ resp.status = "removed"
        /\ resp'.op = "nutrition_target_upsert"
        /\ db'.meals = db.meals
        /\ db'.mealPlans = db.mealPlans)
       => \A x \in resp.out :
             (x.date = today /\ ~\E m \in db.loggedMeals : SameLogKey(m, x))
                => ~\E m \in db'.loggedMeals : SameLogKey(m, x)
      ]_vars

\* A NutritionTarget with no number set.
NoTarget == [calories |-> <<>>, protein_g |-> <<>>, carbs_g |-> <<>>, fat_g |-> <<>>]

\* The values field f has in the totals compute_daily_totals gives for the
\* user and the day.
DayTotal(d, user, day, f) == {t[f] : t \in compute_daily_totals(d, user, day, NoTarget)}

\* The fields of the totals, each with its place in the posted macros.
MacroFields == <<"calories", "protein_g", "carbs_g", "fat_g">>

\* C30: a meal logged with per-serving macros m and quantity k, by
\* log_custom_meal or by log_recipe_meal, adds round(m x k) to each of the
\* day's totals (k in half servings: round(m x halves / 2)).
C30_QuantityMultiplies ==
    [][(/\ resp'.op \in {"log_custom_meal", "log_recipe_meal"}
        /\ resp'.status \in {"logged", "logged_conflict"})
       => \A i \in 1..Len(MacroFields) :
             DayTotal(db', resp'.user, today, MacroFields[i]) =
                {v + RoundHalfEven(resp'.args.macros[i] * resp'.args.halves, 2) :
                    v \in DayTotal(db, resp'.user, today, MacroFields[i])}
      ]_vars

\* The rows of a submitted formset that the loop of pantry_extract_review
\* does not skip: not marked for deletion, with a name.
ProcessedRows(rows) ==
    {rows[i] : i \in {j \in 1..Len(rows) : ~rows[j].delete /\ rows[j].name # ""}}

\* C29: a valid review submission for an upload of the user is answered by
\* the redirect to the dashboard, whatever happens to its rows, and every
\* row of it that is not deleted and has a name is afterwards an ingredient
\* of the user's pantry (by its name, ignoring case) or has got the error
\* message of the row.
C29_EveryRowProcessed ==
    [][(/\ resp'.op = "pantry_extract_review"
        /\ resp'.args.valid
        /\ resp'.status # "404")
       => /\ resp'.status = "redirect"
          /\ \A row \in ProcessedRows(resp'.args.rows) :
                \/ row.name \in resp'.out.errors
                \/ \E r \in db'.ingredients :
                      r.user = resp'.user /\ Lower(r.name) = Lower(row.name)
          /\ resp'.out.added + resp'.out.updated + Cardinality(resp'.out.errors) > 0
                <=> ProcessedRows(resp'.args.rows) # {}
      ]_vars

====
